---- MODULE Spec2Model ----
(***************************************************************************)
(* Model of the krustie router / dispatch core:                            *)
(*   - the route trie of src/router.rs (use_endpoint, add_endpoint,        *)
(*     handle_routes),                                                      *)
(*   - Router::handle (router middleware, lookup, endpoint middleware,      *)
(*     controller),                                                         *)
(*   - the server's top-level handler loop (Server::mock_request),          *)
(*   - the RateLimiter middleware (src/middleware/rate_limiter.rs),         *)
(*   - the body operations of Response (src/response/body.rs,               *)
(*     src/response/utilities.rs).                                          *)
(* Strings are sequences of one-character strings, so that split, trim and  *)
(* the query-string cut are computed the way the code computes them.        *)
(***************************************************************************)
EXTENDS Integers, Sequences, FiniteSets, TLC

\* ------------------------------------------------------------------ bounds
MaxRegs == 2        \* use_endpoint calls in one run
MaxHandlers == 2    \* use_handler calls in one run
MaxCalls == 4       \* middleware / controller invocations recorded per request
MaxMounts == 1      \* use_router calls in one run
MaxTime == 3        \* readings of the clock: Instant::now() stays within 0..MaxTime
MaxServed == 4      \* requests handed to the rate limiter in one run

\* ----------------------------------------------------------------- strings
\* str::starts_with
StartsWith(s, prefix) ==
    /\ Len(s) >= Len(prefix)
    /\ SubSeq(s, 1, Len(prefix)) = prefix

\* str::split(sep): always at least one piece, empty pieces are kept
RECURSIVE Split(_, _)
Split(s, sep) ==
    IF s = <<>> THEN << <<>> >>
    ELSE LET rest == Split(Tail(s), sep) IN
         IF Head(s) = sep THEN << <<>> >> \o rest
         ELSE << <<Head(s)>> \o Head(rest) >> \o Tail(rest)

\* Iterator::skip(n)
Skip(seq, n) == IF Len(seq) <= n THEN <<>> ELSE SubSeq(seq, n + 1, Len(seq))

RECURSIVE TrimStart(_)
TrimStart(s) ==
    IF s # <<>> /\ Head(s) = " " THEN TrimStart(Tail(s)) ELSE s

RECURSIVE TrimEnd(_)
TrimEnd(s) ==
    IF s # <<>> /\ s[Len(s)] = " " THEN TrimEnd(SubSeq(s, 1, Len(s) - 1)) ELSE s

\* str::trim
Trim(s) == TrimEnd(TrimStart(s))

\* HashMap::insert
Insert(m, k, v) == [x \in (DOMAIN m) \cup {k} |-> IF x = k THEN v ELSE m[x]]

EmptyMap == [x \in {} |-> <<>>]

\* ------------------------------------------------------------- path types
\* the characters that the literal-segment regex accepts (a sample of them)
ValidChars == {"a", "b", "c", "u", "1", "2", "4", "7", "9", "_", "-", "."}

\* mutant: every segment that is not a parameter is taken as a literal
PathType_try_from_any(value) ==
    IF StartsWith(value, <<":">>)
    THEN [ok |-> TRUE, kind |-> "Parameter", name |-> Tail(value)]
    ELSE [ok |-> TRUE, kind |-> "Subdirectory", name |-> value]

\* PathType::try_from
PathType_try_from(value) ==
    IF StartsWith(value, <<":">>)
    THEN [ok |-> TRUE, kind |-> "Parameter", name |-> Tail(value)]
    ELSE IF value # <<>> /\ \A i \in 1..Len(value) : value[i] \in ValidChars
         THEN [ok |-> TRUE, kind |-> "Subdirectory", name |-> value]
         ELSE [ok |-> FALSE, kind |-> "Error", name |-> value]

\* Router::get_path_types: ok is FALSE when a segment makes it panic
get_path_types(path) ==
    LET parts == SelectSeq(Split(path, "/"), LAMBDA p : p # <<>>)
        types == [i \in 1..Len(parts) |-> PathType_try_from(parts[i])]
    IN [ok |-> \A i \in 1..Len(types) : types[i].ok, types |-> types]

\* -------------------------------------------------------------------- trie
\* mutant: a new router starts with a middleware in its list
Router_new_with_middleware ==
    [endpoints |-> <<>>, middlewares |-> <<1>>, subdirs |-> EmptyMap, param_dir |-> <<>>]

\* Router::new
Router_new ==
    [endpoints |-> <<>>, middlewares |-> <<>>, subdirs |-> EmptyMap, param_dir |-> <<>>]

\* Endpoint::new_with_middleware (Endpoint::new is the case middlewares = <<>>)
Endpoint_new_with_middleware(method, controller, middlewares) ==
    [method |-> method, controller |-> controller, middlewares |-> middlewares]

\* mutant: every endpoint answers every method
is_method_any(endpoint, method) == TRUE

\* Endpoint::is_method
is_method(endpoint, method) == endpoint.method = method

\* mutant: the endpoint replaces the node's endpoints instead of joining them
push_endpoint_overwrite(router, endpoint) ==
    [router EXCEPT !.endpoints = <<endpoint>>]

\* Vec::push on a router's endpoints (`found_router.endpoints.push(endpoint)`)
push_endpoint(router, endpoint) ==
    [router EXCEPT !.endpoints = Append(@, endpoint)]

\* mutant: the parameter child takes the name of the route being registered
kept_name_latest(found, t) == t.name

\* add_endpoint, the arms where the node has a parameter child already: the
\* child is entered and its name, the first element of the pair, is not
\* written
kept_name(found, t) == found.name

\* Router::add_endpoint: the router after the insertion; ok is FALSE when it panics
RECURSIVE add_endpoint(_, _, _)
add_endpoint(router, endpoint, types) ==
    IF types = <<>>
    THEN [ok |-> FALSE, router |-> router]
    ELSE
      LET t == Head(types)
          rest == Tail(types)
      IN
      IF t.kind = "Subdirectory" THEN
        IF rest # <<>> THEN
          IF t.name \in DOMAIN router.subdirs
          THEN LET sub == add_endpoint(router.subdirs[t.name], endpoint, rest)
               IN [ok |-> sub.ok,
                   router |-> [router EXCEPT !.subdirs = Insert(@, t.name, sub.router)]]
          ELSE LET sub == add_endpoint(Router_new, endpoint, rest)
               IN [ok |-> sub.ok,
                   router |-> [router EXCEPT !.subdirs = Insert(@, t.name, sub.router)]]
        ELSE
          IF t.name \in DOMAIN router.subdirs
          THEN LET found == router.subdirs[t.name]
                   pushed == push_endpoint(found, endpoint)
               IN [ok |-> TRUE,
                   router |-> [router EXCEPT !.subdirs = Insert(@, t.name, pushed)]]
          ELSE LET inserted == push_endpoint(Router_new, endpoint)
               IN [ok |-> TRUE,
                   router |-> [router EXCEPT !.subdirs = Insert(@, t.name, inserted)]]
      ELSE
        IF rest # <<>> THEN
          IF router.param_dir # <<>>
          THEN LET found == router.param_dir[1]
                   sub == add_endpoint(found.router, endpoint, rest)
               IN [ok |-> sub.ok,
                   router |-> [router EXCEPT !.param_dir =
                                  << [name |-> kept_name(found, t), router |-> sub.router] >>]]
          ELSE LET sub == add_endpoint(Router_new, endpoint, rest)
               IN [ok |-> sub.ok,
                   router |-> [router EXCEPT !.param_dir =
                                  << [name |-> t.name, router |-> sub.router] >>]]
        ELSE
          IF router.param_dir # <<>>
          THEN LET found == router.param_dir[1]
                   pushed == push_endpoint(found.router, endpoint)
               IN [ok |-> TRUE,
                   router |-> [router EXCEPT !.param_dir =
                                  << [name |-> kept_name(found, t), router |-> pushed] >>]]
          ELSE LET inserted == push_endpoint(Router_new, endpoint)
               IN [ok |-> TRUE,
                   router |-> [router EXCEPT !.param_dir =
                                  << [name |-> t.name, router |-> inserted] >>]]

\* Router::use_endpoint: the router after the call; ok is FALSE when it panics
use_endpoint(router, path, endpoint) ==
    LET p == Trim(path) IN
    IF p = <<"/">> \/ p = <<>>
    THEN [ok |-> TRUE, router |-> push_endpoint(router, endpoint)]
    ELSE LET path_types == get_path_types(p) IN
         IF ~path_types.ok
         THEN [ok |-> FALSE, router |-> router]
         ELSE add_endpoint(router, endpoint, path_types.types)

\* mutant: the router built for the rest of the prefix is the one stored
param_dir_inserted(param, inserted_router) ==
    << [name |-> param, router |-> inserted_router] >>

\* add_router, the parameter arm when the node has no parameter child and the
\* prefix goes on: `router.param_dir = Some((param, Box::new(Router::new())))`.
\* The router that the rest of the prefix was built into is dropped.
param_dir_continued(param, inserted_router) ==
    << [name |-> param, router |-> Router_new] >>

\* mutant: a mount on a node that exists replaces that node
RECURSIVE add_router_replace(_, _, _)
add_router_replace(router, new_router, types) ==
    IF types = <<>>
    THEN [ok |-> TRUE, router |-> new_router]
    ELSE
      LET t == Head(types)
          rest == Tail(types)
      IN
      IF t.kind = "Subdirectory" THEN
        IF t.name \in DOMAIN router.subdirs
        THEN LET sub == add_router_replace(router.subdirs[t.name], new_router, rest)
             IN [ok |-> sub.ok,
                 router |-> [router EXCEPT !.subdirs = Insert(@, t.name, sub.router)]]
        ELSE IF rest # <<>>
        THEN LET sub == add_router_replace(Router_new, new_router, rest)
             IN [ok |-> sub.ok,
                 router |-> [router EXCEPT !.subdirs = Insert(@, t.name, sub.router)]]
        ELSE [ok |-> TRUE,
              router |-> [router EXCEPT !.subdirs = Insert(@, t.name, new_router)]]
      ELSE
        IF router.param_dir # <<>>
        THEN LET found == router.param_dir[1]
                 sub == add_router_replace(found.router, new_router, rest)
             IN [ok |-> sub.ok,
                 router |-> [router EXCEPT !.param_dir =
                                << [name |-> found.name, router |-> sub.router] >>]]
        ELSE IF rest # <<>>
        THEN LET sub == add_router_replace(Router_new, new_router, rest)
             IN [ok |-> sub.ok,
                 router |-> [router EXCEPT !.param_dir =
                                param_dir_continued(t.name, sub.router)]]
        ELSE [ok |-> TRUE,
              router |-> [router EXCEPT !.param_dir =
                             << [name |-> t.name, router |-> new_router] >>]]

\* Router::add_router: the router after the mount; ok is FALSE when it panics
RECURSIVE add_router(_, _, _)
add_router(router, new_router, types) ==
    IF types = <<>>
    THEN [ok |-> FALSE, router |-> router]
    ELSE
      LET t == Head(types)
          rest == Tail(types)
      IN
      IF t.kind = "Subdirectory" THEN
        IF t.name \in DOMAIN router.subdirs
        THEN LET sub == add_router(router.subdirs[t.name], new_router, rest)
             IN [ok |-> sub.ok,
                 router |-> [router EXCEPT !.subdirs = Insert(@, t.name, sub.router)]]
        ELSE IF rest # <<>>
        THEN LET sub == add_router(Router_new, new_router, rest)
             IN [ok |-> sub.ok,
                 router |-> [router EXCEPT !.subdirs = Insert(@, t.name, sub.router)]]
        ELSE [ok |-> TRUE,
              router |-> [router EXCEPT !.subdirs = Insert(@, t.name, new_router)]]
      ELSE
        IF router.param_dir # <<>>
        THEN LET found == router.param_dir[1]
                 sub == add_router(found.router, new_router, rest)
             IN [ok |-> sub.ok,
                 router |-> [router EXCEPT !.param_dir =
                                << [name |-> found.name, router |-> sub.router] >>]]
        ELSE IF rest # <<>>
        THEN LET sub == add_router(Router_new, new_router, rest)
             IN [ok |-> sub.ok,
                 router |-> [router EXCEPT !.param_dir =
                                param_dir_continued(t.name, sub.router)]]
        ELSE [ok |-> TRUE,
              router |-> [router EXCEPT !.param_dir =
                             << [name |-> t.name, router |-> new_router] >>]]

\* Router::use_router: the router after the call; ok is FALSE when it panics
use_router(router, path, new_router) ==
    LET p == Trim(path) IN
    IF p = <<"/">> \/ p = <<>>
    THEN [ok |-> FALSE, router |-> router]
    ELSE LET path_types == get_path_types(p) IN
         IF ~path_types.ok
         THEN [ok |-> FALSE, router |-> router]
         ELSE add_router(router, new_router, path_types.types)

\* ------------------------------------------------------------------ lookup
\* mutant: the query string is left on the segment
strip_query_none(route) == route

\* mutant: an empty first piece counts as no piece
first_nonempty(pieces) ==
    IF pieces = <<>> \/ Head(pieces) = <<>> THEN <<>> ELSE <<Head(pieces)>>

\* slice::first: <<>> for None, <<x>> for Some(x)
first(pieces) == IF pieces = <<>> THEN <<>> ELSE <<Head(pieces)>>

\* what Option::unwrap leaves in place of a value when it panics
UnwrapNone == << "unwrap on None" >>

\* handle_routes, the cut at the first '?': route.split('?').first().unwrap()
strip_query(route) ==
    LET piece == first(Split(route, "?")) IN
    IF piece = <<>> THEN UnwrapNone ELSE piece[1]

\* mutant: a name that is bound already keeps its value
next_router_keep_first(router, route, params) ==
    IF route \in DOMAIN router.subdirs
    THEN << [router |-> router.subdirs[route], params |-> params] >>
    ELSE IF router.param_dir # <<>>
    THEN << [router |-> router.param_dir[1].router,
             params |-> IF router.param_dir[1].name \in DOMAIN params THEN params
                        ELSE Insert(params, router.param_dir[1].name, route)] >>
    ELSE <<>>

\* mutant: the parameter child is tried before the literal child
next_router_param_first(router, route, params) ==
    IF router.param_dir # <<>>
    THEN << [router |-> router.param_dir[1].router,
             params |-> Insert(params, router.param_dir[1].name, route)] >>
    ELSE IF route \in DOMAIN router.subdirs
    THEN << [router |-> router.subdirs[route], params |-> params] >>
    ELSE <<>>

\* handle_routes, the choice of the child for a non-empty segment: the literal
\* child with that key, else the parameter child (binding the segment), else
\* none (<<>>)
next_router(router, route, params) ==
    IF route \in DOMAIN router.subdirs
    THEN << [router |-> router.subdirs[route], params |-> params] >>
    ELSE IF router.param_dir # <<>>
    THEN << [router |-> router.param_dir[1].router,
             params |-> Insert(params, router.param_dir[1].name, route)] >>
    ELSE <<>>

\* mutant: the node's first endpoint is the one found, whatever its method
find_endpoint_head(endpoints, method) ==
    IF endpoints # <<>> THEN <<Head(endpoints)>> ELSE <<>>

\* mutant: the last endpoint with the method is the one found
find_endpoint_last(endpoints, method) ==
    LET hits == SelectSeq(endpoints, LAMBDA e : is_method(e, method)) IN
    IF hits # <<>> THEN <<hits[Len(hits)]>> ELSE <<>>

\* handle_routes, the search of the node's endpoints: the first one with the
\* method, <<>> when there is none
find_endpoint(endpoints, method) ==
    LET hits == SelectSeq(endpoints, LAMBDA e : is_method(e, method)) IN
    IF hits # <<>> THEN <<Head(hits)>> ELSE <<>>

\* mutant: when the literal subtree yields no match, the parameter child of the
\* same node is tried
RECURSIVE handle_routes_backtrack(_, _, _, _)
handle_routes_backtrack(router, method, params, iter) ==
    IF iter # <<>> THEN
      LET route == strip_query(Head(iter))
          rest == Tail(iter)
      IN
      IF route = UnwrapNone THEN [found |-> FALSE, panic |-> TRUE]
      ELSE IF route = <<>> THEN handle_routes_backtrack(router, method, params, rest)
      ELSE LET literal == IF route \in DOMAIN router.subdirs
                          THEN handle_routes_backtrack(router.subdirs[route], method,
                                                       params, rest)
                          ELSE [found |-> FALSE]
           IN
           IF literal.found \/ router.param_dir = <<>> THEN literal
           ELSE handle_routes_backtrack(router.param_dir[1].router, method,
                                        Insert(params, router.param_dir[1].name, route),
                                        rest)
    ELSE
      LET hit == find_endpoint(router.endpoints, method) IN
      IF hit # <<>>
      THEN [found |-> TRUE, endpoint |-> hit[1], params |-> params]
      ELSE [found |-> FALSE]

\* mutant: an empty segment is looked up like any other
RECURSIVE handle_routes_keep_empty(_, _, _, _)
handle_routes_keep_empty(router, method, params, iter) ==
    IF iter # <<>> THEN
      LET route == strip_query(Head(iter))
          rest == Tail(iter)
      IN
      IF route = UnwrapNone THEN [found |-> FALSE, panic |-> TRUE]
      ELSE LET child == next_router(router, route, params) IN
           IF child # <<>>
           THEN handle_routes_keep_empty(child[1].router, method, child[1].params, rest)
           ELSE [found |-> FALSE]
    ELSE
      LET hit == find_endpoint(router.endpoints, method) IN
      IF hit # <<>>
      THEN [found |-> TRUE, endpoint |-> hit[1], params |-> params]
      ELSE [found |-> FALSE]

\* Router::handle_routes: found is FALSE for None; the result has a field
\* panic when the lookup panicked
RECURSIVE handle_routes(_, _, _, _)
handle_routes(router, method, params, iter) ==
    IF iter # <<>> THEN
      LET route == strip_query(Head(iter))
          rest == Tail(iter)
      IN
      IF route = UnwrapNone THEN [found |-> FALSE, panic |-> TRUE]
      ELSE IF route = <<>> THEN handle_routes(router, method, params, rest)
      ELSE LET child == next_router(router, route, params) IN
           IF child # <<>>
           THEN handle_routes(child[1].router, method, child[1].params, rest)
           ELSE [found |-> FALSE]
    ELSE
      LET hit == find_endpoint(router.endpoints, method) IN
      IF hit # <<>>
      THEN [found |-> TRUE, endpoint |-> hit[1], params |-> params]
      ELSE [found |-> FALSE]

\* mutant: the map starts with a binding that another dispatch left in it
route_handler_seeded(router, path_array, method) ==
    handle_routes(router, method, (<<"x">> :> <<"o", "l", "d">>), path_array)

\* Router::route_handler
route_handler(router, path_array, method) ==
    handle_routes(router, method, EmptyMap, path_array)

\* mutant: the write lands on the root node's endpoint list
put_endpoint_root(router, method, iter, endpoint) == push_endpoint(router, endpoint)

\* the `&mut Endpoint` that handle_routes returns points into the trie: the
\* trie after `endpoint` was written through the reference that the lookup of
\* (method, iter) returned
RECURSIVE put_endpoint(_, _, _, _)
put_endpoint(router, method, iter, endpoint) ==
    IF iter # <<>> THEN
      LET route == strip_query(Head(iter))
          rest == Tail(iter)
      IN
      IF route = <<>> THEN put_endpoint(router, method, rest, endpoint)
      ELSE IF route \in DOMAIN router.subdirs
      THEN [router EXCEPT !.subdirs =
               Insert(@, route, put_endpoint(router.subdirs[route], method, rest, endpoint))]
      ELSE IF router.param_dir # <<>>
      THEN [router EXCEPT !.param_dir =
               << [name |-> router.param_dir[1].name,
                   router |-> put_endpoint(router.param_dir[1].router, method, rest,
                                           endpoint)] >>]
      ELSE router
    ELSE
      LET hits == {i \in 1..Len(router.endpoints) : is_method(router.endpoints[i], method)}
      IN IF hits = {} THEN router
         ELSE [router EXCEPT !.endpoints[CHOOSE i \in hits : \A j \in hits : i <= j] =
                  endpoint]

\* ----------------------------------------------------------------- request
\* RequestLine::uri_parser
uri_parser(uri) ==
    IF StartsWith(uri, <<"/">>) THEN Skip(Split(uri, "/"), 1)
    ELSE IF StartsWith(uri, <<"h", "t", "t", "p">>) THEN Skip(Split(uri, "/"), 3)
    ELSE Skip(Split(uri, "/"), 1)

\* Request::builder().method(m).path(uri).build()
Request_build(method, uri) ==
    [method |-> method, uri |-> uri, path_array |-> uri_parser(uri), params |-> EmptyMap]

\* Request::get_path_array
get_path_array(req) == req.path_array

\* Request::add_param
add_param(req, params) == [req EXCEPT !.params = params]

\* mutant: the bindings are written into the request that handle was given
bind_in_place(req, params) ==
    [request |-> add_param(req, params), clone |-> add_param(req, params)]

\* Router::handle, `let mut request = request.clone(); request.add_param(params)`:
\* the request that handle was given, and the clone that the controller gets
clone_and_bind(req, params) ==
    [request |-> req, clone |-> add_param(req, params)]

\* Request::get_param: <<>> for None, <<value>> for Some(value)
get_param(req, key) == IF key \in DOMAIN req.params THEN <<req.params[key]>> ELSE <<>>

\* ---------------------------------------------------------------- response
\* Response::default
Response_default == [status_code |-> "NotFound", headers |-> {}, body |-> 0]

\* Response::status
status(res, status_code) == [res EXCEPT !.status_code = status_code]

\* Middleware::middleware of the middleware instance `id`, returning `ret`:
\* it marks the response with its own header; one that ends the chain also
\* sets the status (as RateLimiter does).
middleware(id, ret, res) ==
    LET marked == [res EXCEPT !.headers = @ \cup {id}] IN
    IF ret = "End" THEN status(marked, "TooManyRequests") ELSE marked

\* a controller: answers Ok with a body that identifies it
controller(id, req, res) == [status(res, "Ok") EXCEPT !.body = id]

\* ------------------------------------------------------------ rate limiter
\* the number of values of a u16, the type of token_number and of the token
\* count of an entry
U16 == 65536

\* RateLimiter::new; durations are in milliseconds
RateLimiter_new(token_number, token_refill_ms) ==
    [token_number |-> token_number,
     token_refill_duration |-> token_refill_ms,
     requests |-> EmptyMap]

\* RateLimiter::check with Instant::now() = at.  `self.token_number - 1` on a
\* token_number of 0 overflows the u16: a build with overflow checks panics
\* there, a build without them wraps around.
check(self, ip, at, overflow_checks_on) ==
    LET requests == IF ip \in DOMAIN self.requests THEN self.requests
                    ELSE Insert(self.requests, ip,
                                [instant |-> at, tokens |-> self.token_number])
        entry == requests[ip]
        put(e) == [self EXCEPT !.requests = Insert(requests, ip, e)]
    IN
    IF at - entry.instant >= self.token_refill_duration
    THEN IF self.token_number = 0 /\ overflow_checks_on
         THEN [panic |-> TRUE, pass |-> FALSE, limiter |-> put([entry EXCEPT !.instant = at])]
         ELSE [panic |-> FALSE, pass |-> TRUE,
               limiter |-> put([instant |-> at,
                                tokens |-> (self.token_number + U16 - 1) % U16])]
    ELSE IF entry.tokens > 0
    THEN [panic |-> FALSE, pass |-> TRUE, limiter |-> put([entry EXCEPT !.tokens = @ - 1])]
    ELSE [panic |-> FALSE, pass |-> FALSE, limiter |-> put(entry)]

\* <RateLimiter as Middleware>::middleware for a request whose peer address is
\* `ip`
RateLimiter_middleware(self, ip, res, at, overflow_checks_on) ==
    LET checked == check(self, ip, at, overflow_checks_on) IN
    IF checked.panic
    THEN [panic |-> TRUE, limiter |-> checked.limiter, response |-> res, result |-> "None"]
    ELSE IF checked.pass
    THEN [panic |-> FALSE, limiter |-> checked.limiter, response |-> res, result |-> "Next"]
    ELSE [panic |-> FALSE, limiter |-> checked.limiter,
          response |-> status(res, "TooManyRequests"), result |-> "End"]

\* ----------------------------------------------------------- response body
Digits == <<"0", "1", "2", "3", "4", "5", "6", "7", "8", "9">>

\* usize::to_string: the decimal digits
RECURSIVE to_string(_)
to_string(n) ==
    IF n < 10 THEN <<Digits[n + 1]>>
    ELSE Append(to_string(n \div 10), Digits[(n % 10) + 1])

\* the ASCII codes of the characters the JSON texts of the model are made of
Ascii ==
    ("n" :> 110) @@ ("u" :> 117) @@ ("l" :> 108) @@ ("t" :> 116) @@ ("r" :> 114)
    @@ ("e" :> 101) @@ ("f" :> 102) @@ ("a" :> 97) @@ ("s" :> 115) @@ ("h" :> 104)
    @@ ("\"" :> 34) @@ ("0" :> 48) @@ ("1" :> 49) @@ ("2" :> 50) @@ ("3" :> 51)
    @@ ("4" :> 52) @@ ("5" :> 53) @@ ("6" :> 54) @@ ("7" :> 55) @@ ("8" :> 56)
    @@ ("9" :> 57)

\* str::as_bytes: the UTF-8 bytes; "U+00E9" stands for the one character
\* outside ASCII that the model uses, two bytes long
RECURSIVE as_bytes(_)
as_bytes(chars) ==
    IF chars = <<>> THEN <<>>
    ELSE (IF Head(chars) \in DOMAIN Ascii THEN <<Ascii[Head(chars)]>> ELSE <<195, 169>>)
         \o as_bytes(Tail(chars))

\* serde_json::to_string for null, booleans, unsigned numbers and strings
\* that need no escape
serde_json_to_string(data) ==
    CASE data.kind = "null" -> <<"n", "u", "l", "l">>
      [] data.kind = "bool" -> IF data.flag THEN <<"t", "r", "u", "e">> ELSE <<"f", "a", "l", "s", "e">>
      [] data.kind = "number" -> to_string(data.number)
      [] data.kind = "string" -> <<"\"">> \o data.chars \o <<"\"">>

TextPlain == <<"t", "e", "x", "t", "/", "p", "l", "a", "i", "n">>
ApplicationJson == <<"a", "p", "p", "l", "i", "c", "a", "t", "i", "o", "n", "/", "j", "s", "o", "n">>

\* Response::default with the header map and the body bytes spelled out
Response_default_bytes == [status_code |-> "NotFound", headers |-> EmptyMap, body |-> <<>>]

\* Response::body
Response_body(self, bytes, content_type) ==
    LET ct == IF Len(content_type) > 0 THEN content_type ELSE TextPlain IN
    [self EXCEPT !.headers = Insert(Insert(@, "Content-Length", to_string(Len(bytes))),
                                    "Content-Type", ct),
                 !.body = bytes]

\* Response::json_body
json_body(self, data) ==
    Response_body(self, as_bytes(serde_json_to_string(data)), ApplicationJson)

\* mutant: the body is replaced whether or not there was one
update_body_unchecked(self, bytes) ==
    [ok |-> TRUE,
     response |-> [self EXCEPT !.headers = Insert(@, "Content-Length", to_string(Len(bytes))),
                               !.body = bytes]]

\* Response::update_body (response/body.rs)
update_body(self, bytes) ==
    IF Len(self.body) = 0 THEN [ok |-> FALSE, response |-> self]
    ELSE [ok |-> TRUE,
          response |-> [self EXCEPT !.headers = Insert(@, "Content-Length",
                                                       to_string(Len(bytes))),
                                    !.body = bytes]]

\* Response::set_body (response/utilities.rs)
set_body(self, bytes) ==
    IF self.body = <<>> THEN [ok |-> FALSE, response |-> self]
    ELSE [ok |-> TRUE, response |-> [self EXCEPT !.body = bytes]]

\* ------------------------------------------------------------------ inputs
\* The registration paths, request URIs, methods and middleware lists one run
\* draws its inputs from.  A run picks one family in Init and keeps it.
MiddlewareInputs ==
    [paths |-> { <<"/">>, <<"/", "a">> },
     methods |-> {"GET"},
     middlewares |-> { <<>>, <<1>>, <<1, 2>> },
     handlers |-> {3},
     uris |-> { <<"/">>, <<"/", "a">>, <<"/", "b">> }]

LiteralInputs ==
    [paths |-> { <<"/", "a">>, <<"/", "a", "/", "b">>, <<"/", "b">> },
     methods |-> {"GET", "POST"},
     middlewares |-> { <<>> },
     handlers |-> {3},
     uris |-> { <<"/", "a">>, <<"/", "a", "/", "b">>, <<"/", "b">>,
                <<"/", "a", "?", "b">> }]

ParameterInputs ==
    [paths |-> { <<"/", "u", "/", "a">>, <<"/", "u", "/", ":", "x">>,
                 <<"/", ":", "x", "/", ":", "y">>, <<"/", ":", "y">> },
     methods |-> {"GET"},
     middlewares |-> { <<>> },
     handlers |-> {3},
     uris |-> { <<"/", "u", "/", "a">>, <<"/", "7", "/", "9", "9">>,
                <<"/", "u", "/", "a", "?", "b">>,
                <<"/", "u", "/", "/", "4", "?", "a", "/">> }]

\* a router built by use_endpoint calls alone, with the calls that built it
Built(regs) ==
    LET RECURSIVE Build(_)
        Build(n) ==
            IF n = 0 THEN Router_new
            ELSE use_endpoint(Build(n - 1), regs[n].path,
                              Endpoint_new_with_middleware(regs[n].method,
                                                           regs[n].controller, <<>>)).router
    IN [router |-> Build(Len(regs)), registered |-> regs]

\* registration paths with empty segments, the root, and an invalid segment
RegistrationInputs ==
    [paths |-> { <<"/">>, <<>>, <<"/", "/">>, <<"/", "a", "/", "/", "b", "/">>, <<"a", "/", "b">>, <<"/", "a", "/", "$">> },
     methods |-> {"GET"},
     middlewares |-> { <<>> },
     handlers |-> {3},
     uris |-> { <<"/">>, <<"/", "a", "/", "/", "b">>,
                <<"/", "a", "/", "/", "b", "?", "$">> },
     prefixes |-> { <<"/", "$", "/", "u">> },
     parents |-> { Built(<<>>) }]

\* sub-routers mounted under literal and parameter prefixes, into a new parent
\* and into parents that already have the first node of the prefix
MountInputs ==
    [paths |-> { <<"/">>, <<"/", "c">> },
     methods |-> {"GET"},
     middlewares |-> { <<>> },
     handlers |-> {3},
     uris |-> { <<"/", "u", "/", "c", "/", "c">>, <<"/", "7", "/", "a">> },
     prefixes |-> { <<"/", "u", "/", "c">>, <<"/", ":", "x">>, <<"/", ":", "x", "/", "a">> },
     parents |-> { Built(<<>>),
                   Built(<< [path |-> <<"/", "u", "/", "b">>, method |-> "GET", controller |-> 8],
                            [path |-> <<"/", ":", "x">>, method |-> "GET", controller |-> 9] >>) }]

\* a literal route and a parameter route that part below a shared first
\* segment, and requests that take the literal child and then find nothing
DeepInputs ==
    [paths |-> { <<"/", "u", "/", "a", "/", "b">>, <<"/", "u", "/", ":", "x", "/", "c">> },
     methods |-> {"GET"},
     middlewares |-> { <<>> },
     handlers |-> {3},
     uris |-> { <<"/", "u", "/", "a", "/", "c">>, <<"/", "u", "/", "7", "/", "c">>,
                <<"/", "u", "/", "a", "/", "b">> }]

\* a route that uses one parameter name at two depths
RepeatInputs ==
    [paths |-> { <<"/", ":", "x", "/", "a", "/", ":", "x">>, <<"/", ":", "x">>,
                 <<"/", ":", "x", "/", ":", "y">> },
     methods |-> {"GET"},
     middlewares |-> { <<>> },
     handlers |-> {3},
     uris |-> { <<"/", "7", "/", "a", "/", "9">>, <<"/", "7">>, <<"/", "7", "/", "9">> }]

\* a literal and a parameter route under one node, each with two methods
OrderInputs ==
    [paths |-> { <<"/", "u", "/", ":", "x">>, <<"/", "u", "/", "a">> },
     methods |-> {"GET", "POST"},
     middlewares |-> { <<>> },
     handlers |-> {3},
     uris |-> { <<"/", "u", "/", "a">>, <<"/", "u", "/", "7">> }]

Inputs == {MiddlewareInputs, LiteralInputs, ParameterInputs, RegistrationInputs,
           MountInputs, DeepInputs, RepeatInputs, OrderInputs}

\* token numbers with and without tokens, refill durations of 0 and 2 ms, two
\* client addresses
LimiterInputs ==
    [token_numbers |-> {0, 1, 2},
     refills |-> {0, 2},
     ips |-> {"10.0.0.1", "10.0.0.2"}]

\* bodies of 0, 2, 3 and 10 bytes, content types, and JSON values
ResponseInputs ==
    [bodies |-> { <<>>, <<104, 105>>, <<98, 121, 101>>, [i \in 1..10 |-> 97] },
     content_types |-> { <<>>, <<"t", "e", "x", "t", "/", "h", "t", "m", "l">> },
     json |-> { [kind |-> "null"], [kind |-> "bool", flag |-> TRUE],
                [kind |-> "number", number |-> 10],
                [kind |-> "string", chars |-> <<"h", "U+00E9">>] }]

\* ------------------------------------------------------------------- state
VARIABLES
    inputs,          \* the input family of this run
    router,          \* the Router being built (not yet handed to the server)
    registered,      \* the use_endpoint calls made on `router`, in order
    route_handlers,  \* Server.route_handlers
    panicked,        \* a registration or a dispatch panicked: the process is gone
    attempt,         \* the last registration call made on `router`, <<>> if none
    mounts,          \* number of use_router calls made
    pc,              \* position of the request in flight
    request,         \* the Request given to mock_request
    response,        \* the Response being built
    hidx,            \* index of the top-level handler mock_request is at
    matched,         \* what route_handler returned in the router being run
    result,          \* what the last top-level handler returned to mock_request
    calls,           \* the invocations made for this request, in order
    turn,            \* parity of the number of middleware loop turns taken
    ctrl_request,    \* the Request handed to the controller
    rate_limiter,    \* the RateLimiter, <<>> before RateLimiter::new
    now,             \* the clock that Instant::now() reads, in milliseconds
    overflow_checks, \* whether the build panics on integer overflow
    served,          \* the requests the rate limiter handled, in order
    resp,            \* a Response that body operations are called on
    last_op          \* the last body operation called on `resp`, <<>> if none

vars == <<inputs, router, registered, route_handlers, panicked, attempt, mounts, pc, request,
          response, hidx, matched, result, calls, turn, ctrl_request, rate_limiter, now,
          overflow_checks, served, resp, last_op>>

objvars == <<rate_limiter, now, overflow_checks, served, resp, last_op>>

regvars == <<router, registered, route_handlers, panicked, attempt, mounts>>
reqvars == <<request, response, hidx, matched, result, calls, turn, ctrl_request>>

NoRequest == [method |-> "GET", uri |-> <<>>, path_array |-> <<>>, params |-> EmptyMap]
NoMatch == [found |-> FALSE]

InitServer ==
    /\ router = Router_new
    /\ registered = <<>>
    /\ route_handlers = <<>>
    /\ panicked = FALSE
    /\ attempt = <<>>
    /\ mounts = 0
    /\ pc = "idle"
    /\ request = NoRequest
    /\ response = Response_default
    /\ hidx = 0
    /\ matched = NoMatch
    /\ result = "None"
    /\ calls = <<>>
    /\ turn = 0
    /\ ctrl_request = <<>>

InitObjects ==
    /\ rate_limiter = <<>>
    /\ now = 0
    /\ served = <<>>
    /\ resp = Response_default_bytes
    /\ last_op = <<>>

Init ==
    /\ inputs \in Inputs
    /\ InitServer
    /\ InitObjects
    /\ overflow_checks = TRUE

\* number of endpoints stored in a trie
RECURSIVE CountEndpoints(_)
CountEndpoints(r) ==
    LET keys == DOMAIN r.subdirs
        RECURSIVE Sum(_)
        Sum(S) == IF S = {} THEN 0
                  ELSE LET k == CHOOSE x \in S : TRUE
                       IN CountEndpoints(r.subdirs[k]) + Sum(S \ {k})
    IN Len(r.endpoints) + Sum(keys)
       + (IF r.param_dir # <<>> THEN CountEndpoints(r.param_dir[1].router) ELSE 0)

RECURSIVE TotalEndpoints(_)
TotalEndpoints(handlers) ==
    IF handlers = <<>> THEN 0
    ELSE (IF Head(handlers).kind = "router" THEN CountEndpoints(Head(handlers).router) ELSE 0)
         + TotalEndpoints(Tail(handlers))

\* ------------------------------------------------------------ registration
\* router.use_endpoint(path, Endpoint::new_with_middleware(method, controller, mws));
\* the controller of the n-th registration is controller n.
UseEndpoint(path, method, mws) ==
    /\ ~panicked
    /\ pc = "idle"
    /\ CountEndpoints(router) + TotalEndpoints(route_handlers) < MaxRegs
    /\ LET id == CountEndpoints(router) + TotalEndpoints(route_handlers) + 1
           endpoint == Endpoint_new_with_middleware(method, id, mws)
           res == use_endpoint(router, path, endpoint)
       IN /\ panicked' = ~res.ok
          /\ router' = res.router
          /\ registered' = IF res.ok
                           THEN Append(registered,
                                       [path |-> path, method |-> method, controller |-> id])
                           ELSE registered
    /\ attempt' = << [op |-> "use_endpoint", path |-> path] >>
    /\ UNCHANGED objvars
    /\ UNCHANGED <<inputs, route_handlers, mounts, pc>>
    /\ UNCHANGED reqvars

\* parent.use_router(prefix, router): the router being built is mounted into
\* `parent`, and the parent is the router being built from then on
UseRouter(prefix, parent) ==
    /\ ~panicked
    /\ pc = "idle"
    /\ mounts < MaxMounts
    /\ mounts' = mounts + 1
    /\ LET res == use_router(parent.router, prefix, router)
       IN /\ panicked' = ~res.ok
          /\ router' = res.router
          /\ registered' = parent.registered
    /\ attempt' = << [op |-> "use_router", path |-> prefix] >>
    /\ UNCHANGED objvars
    /\ UNCHANGED <<inputs, route_handlers, pc>>
    /\ UNCHANGED reqvars

\* server.use_handler(router): the router moves into the server
UseHandlerRouter ==
    /\ ~panicked
    /\ pc = "idle"
    /\ Len(route_handlers) < MaxHandlers
    /\ route_handlers' = Append(route_handlers,
                                [kind |-> "router", router |-> router,
                                 registered |-> registered])
    /\ router' = Router_new
    /\ registered' = <<>>
    /\ attempt' = <<>>
    /\ UNCHANGED objvars
    /\ UNCHANGED <<inputs, panicked, mounts, pc>>
    /\ UNCHANGED reqvars

\* server.use_handler(middleware)
UseHandlerMiddleware(id) ==
    /\ ~panicked
    /\ pc = "idle"
    /\ Len(route_handlers) < MaxHandlers
    /\ route_handlers' = Append(route_handlers, [kind |-> "middleware", id |-> id])
    /\ UNCHANGED objvars
    /\ UNCHANGED <<inputs, router, registered, panicked, attempt, mounts, pc>>
    /\ UNCHANGED reqvars

\* ---------------------------------------------------------------- dispatch
HandlerResult == {"Next", "End"}

\* the record of one invocation; the first MaxCalls of a request are kept
Log(entry) == IF Len(calls) < MaxCalls THEN Append(calls, entry) ELSE calls

Call(tier, id, ret) == [tier |-> tier, handler |-> hidx, id |-> id, result |-> ret]

\* mutant: the loop never breaks (End is treated like Next)
mock_request_next_no_break(ret, h) == [pc |-> "loop", hidx |-> h + 1]

\* mutant: after the second handler the loop starts over at the first
mock_request_next_restart(ret, h) ==
    IF ret = "End" THEN [pc |-> "done", hidx |-> h]
    ELSE [pc |-> "loop", hidx |-> IF h = 2 THEN 1 ELSE h + 1]

\* Server::mock_request, the loop body after handler.handle returned `ret`:
\* End breaks out of the loop, Next goes on to the next handler
mock_request_next(ret, h) ==
    IF ret = "End" THEN [pc |-> "done", hidx |-> h]
    ELSE [pc |-> "loop", hidx |-> h + 1]

\* `while let Some(middleware) = list.iter_mut().next()`: the element the loop
\* head yields, <<>> when it yields None.  The iterator is made anew each time
\* round, so it is at the front of the list.
loop_head(list) == IF list = <<>> THEN <<>> ELSE <<Head(list)>>

\* mutant: the loop head takes the element out of the list
loop_rest_pop(list) == IF list = <<>> THEN list ELSE Tail(list)

\* the list after the loop head ran: `iter_mut().next()` borrows the element,
\* the Vec keeps every element
loop_rest(list) == list

\* Server::mock_request(request): a fresh response, then the handlers in order.
\* A router that is still being built cannot be reached from the server, so
\* nothing is lost by sending requests only while no router is half built.
MockRequest(method, uri) ==
    /\ ~panicked
    /\ pc = "idle"
    /\ router = Router_new
    /\ request' = Request_build(method, uri)
    /\ response' = Response_default
    /\ hidx' = 1
    /\ matched' = NoMatch
    /\ result' = "None"
    /\ calls' = <<>>
    /\ turn' = 0
    /\ ctrl_request' = <<>>
    /\ pc' = "loop"
    /\ UNCHANGED objvars
    /\ UNCHANGED inputs
    /\ UNCHANGED regvars

\* mock_request: the for loop has no handler left, the response is returned
LoopEnd ==
    /\ pc = "loop"
    /\ hidx > Len(route_handlers)
    /\ pc' = "done"
    /\ UNCHANGED objvars
    /\ UNCHANGED <<inputs, request, response, hidx, matched, result, calls, turn,
                   ctrl_request>>
    /\ UNCHANGED regvars

\* mock_request: the next handler is a middleware (RouteHandler for T: Middleware)
HandleMiddleware(ret) ==
    /\ pc = "loop"
    /\ hidx <= Len(route_handlers)
    /\ route_handlers[hidx].kind = "middleware"
    /\ LET id == route_handlers[hidx].id
           nxt == mock_request_next(ret, hidx)
       IN /\ response' = middleware(id, ret, response)
          /\ calls' = Log(Call("handler", id, ret))
          /\ result' = ret
          /\ pc' = nxt.pc
          /\ hidx' = nxt.hidx
    /\ UNCHANGED objvars
    /\ UNCHANGED <<inputs, request, matched, turn, ctrl_request>>
    /\ UNCHANGED regvars

\* mock_request: the next handler is a Router, Router::handle is entered
HandleRouter ==
    /\ pc = "loop"
    /\ hidx <= Len(route_handlers)
    /\ route_handlers[hidx].kind = "router"
    /\ pc' = "router_middlewares"
    /\ UNCHANGED objvars
    /\ UNCHANGED <<inputs, request, response, hidx, matched, result, calls, turn,
                   ctrl_request>>
    /\ UNCHANGED regvars

\* one turn of a `while let` middleware loop of Router::handle over `list`:
\* the loop is left for `exit` when the head yields None, handle returns End
\* when the middleware does, and the loop goes round again on Next
MiddlewareLoop(list, tier, ret, exit) ==
    LET head == loop_head(list) IN
    IF head = <<>>
    THEN /\ pc' = exit
         /\ UNCHANGED <<response, calls, turn, result, hidx>>
    ELSE /\ response' = middleware(head[1], ret, response)
         /\ calls' = Log(Call(tier, head[1], ret))
         /\ turn' = 1 - turn
         /\ IF ret = "End"
            THEN LET nxt == mock_request_next("End", hidx)
                 IN result' = "End" /\ pc' = nxt.pc /\ hidx' = nxt.hidx
            ELSE UNCHANGED <<result, pc, hidx>>

\* Router::handle, the loop over self.middlewares
RouterMiddlewares(ret) ==
    /\ pc = "router_middlewares"
    /\ MiddlewareLoop(route_handlers[hidx].router.middlewares, "router", ret, "lookup")
    /\ route_handlers' = [route_handlers EXCEPT ![hidx].router.middlewares = loop_rest(@)]
    /\ UNCHANGED objvars
    /\ UNCHANGED <<inputs, request, matched, ctrl_request>>
    /\ UNCHANGED <<router, registered, panicked, attempt, mounts>>

\* mutant: an unmatched router ends the chain
not_found_end(res) == [response |-> status(res, "NotFound"), result |-> "End"]

\* mutant: an unmatched router answers with a new response
not_found_reset(res) == [response |-> Response_default, result |-> "Next"]

\* Router::handle, the None arm: the status is set and Next is returned
not_found(res) == [response |-> status(res, "NotFound"), result |-> "Next"]

\* Router::handle, the call of route_handler and the None arm
Lookup ==
    /\ pc = "lookup"
    /\ LET found == route_handler(route_handlers[hidx].router, request.path_array,
                                  request.method)
       IN IF "panic" \in DOMAIN found
          THEN /\ panicked' = TRUE
               /\ pc' = "panic"
               /\ UNCHANGED <<response, hidx, result, calls, matched>>
          ELSE IF found.found
          THEN /\ matched' = found
               /\ pc' = "endpoint_middlewares"
               /\ UNCHANGED <<response, hidx, result, calls, panicked>>
          ELSE LET out == not_found(response)
                   nxt == mock_request_next(out.result, hidx)
               IN /\ response' = out.response
                  /\ calls' = Log(Call("not_found", 0, out.result))
                  /\ result' = out.result
                  /\ matched' = NoMatch
                  /\ pc' = nxt.pc
                  /\ hidx' = nxt.hidx
                  /\ UNCHANGED panicked
    /\ UNCHANGED objvars
    /\ UNCHANGED <<inputs, request, turn, ctrl_request>>
    /\ UNCHANGED <<router, registered, route_handlers, attempt, mounts>>

\* Router::handle, the loop over endpoint.get_middlewares()
EndpointMiddlewares(ret) ==
    /\ pc = "endpoint_middlewares"
    /\ MiddlewareLoop(matched.endpoint.middlewares, "endpoint", ret, "controller")
    /\ LET endpoint == [matched.endpoint EXCEPT !.middlewares = loop_rest(@)]
       IN /\ matched' = [matched EXCEPT !.endpoint = endpoint]
          /\ route_handlers' =
                [route_handlers EXCEPT ![hidx].router =
                    put_endpoint(@, request.method, request.path_array, endpoint)]
    /\ UNCHANGED objvars
    /\ UNCHANGED <<inputs, request, ctrl_request>>
    /\ UNCHANGED <<router, registered, panicked, attempt, mounts>>

\* Router::handle, the Some arm after the loop: clone, add_param, controller, Next
Controller ==
    /\ pc = "controller"
    /\ LET bound == clone_and_bind(request, matched.params)
           nxt == mock_request_next("Next", hidx)
       IN /\ request' = bound.request
          /\ ctrl_request' = <<bound.clone>>
          /\ response' = controller(matched.endpoint.controller, bound.clone, response)
          /\ calls' = Log(Call("controller", matched.endpoint.controller, "Next"))
          /\ result' = "Next"
          /\ pc' = nxt.pc
          /\ hidx' = nxt.hidx
    /\ UNCHANGED objvars
    /\ UNCHANGED <<inputs, matched, turn>>
    /\ UNCHANGED regvars

\* mock_request has returned the response; the caller drops it
Return ==
    /\ pc = "done"
    /\ pc' = "idle"
    /\ request' = NoRequest
    /\ response' = Response_default
    /\ hidx' = 0
    /\ matched' = NoMatch
    /\ result' = "None"
    /\ calls' = <<>>
    /\ turn' = 0
    /\ ctrl_request' = <<>>
    /\ UNCHANGED objvars
    /\ UNCHANGED inputs
    /\ UNCHANGED regvars

Next ==
    \/ \E path \in inputs.paths, method \in inputs.methods, mws \in inputs.middlewares :
          UseEndpoint(path, method, mws)
    \/ UseHandlerRouter
    \/ \E id \in inputs.handlers : UseHandlerMiddleware(id)
    \/ \E method \in inputs.methods, uri \in inputs.uris : MockRequest(method, uri)
    \/ LoopEnd
    \/ \E ret \in HandlerResult : HandleMiddleware(ret)
    \/ HandleRouter
    \/ \E ret \in HandlerResult : RouterMiddlewares(ret)
    \/ Lookup
    \/ \E ret \in HandlerResult : EndpointMiddlewares(ret)
    \/ Controller
    \/ Return

Spec == Init /\ [][Next]_vars

\* the same machine, one input family at a time
InitMiddleware == Init /\ inputs = MiddlewareInputs
InitLiteral == Init /\ inputs = LiteralInputs
InitParameter == Init /\ inputs = ParameterInputs

SpecMiddleware == InitMiddleware /\ [][Next]_vars
SpecLiteral == InitLiteral /\ [][Next]_vars
SpecParameter == InitParameter /\ [][Next]_vars
InitDeep == Init /\ inputs = DeepInputs
SpecDeep == InitDeep /\ [][Next]_vars
InitRepeat == Init /\ inputs = RepeatInputs
SpecRepeat == InitRepeat /\ [][Next]_vars
InitOrder == Init /\ inputs = OrderInputs
SpecOrder == InitOrder /\ [][Next]_vars

\* the machine with use_router among the registration calls
NextMount ==
    \/ Next
    \/ \E prefix \in inputs.prefixes, parent \in inputs.parents : UseRouter(prefix, parent)

InitRegistration == Init /\ inputs = RegistrationInputs
InitMount == Init /\ inputs = MountInputs

SpecRegistration == InitRegistration /\ [][NextMount]_vars
SpecMount == InitMount /\ [][NextMount]_vars

\* ------------------------------------------------------------ rate limiter
servervars == <<router, registered, route_handlers, attempt, mounts, pc, request, hidx,
                matched, calls, turn, ctrl_request>>

\* RateLimiter::new(token_number, token_refill_ms)
RateLimiterNew(token_number, token_refill_ms) ==
    /\ ~panicked
    /\ rate_limiter = <<>>
    /\ rate_limiter' = << RateLimiter_new(token_number, token_refill_ms) >>
    /\ UNCHANGED <<inputs, panicked, response, result, now, overflow_checks, served, resp,
                   last_op>>
    /\ UNCHANGED servervars

\* a millisecond passes
Tick ==
    /\ ~panicked
    /\ now < MaxTime
    /\ now' = now + 1
    /\ UNCHANGED <<inputs, panicked, response, result, rate_limiter, overflow_checks, served,
                   resp, last_op>>
    /\ UNCHANGED servervars

\* the rate limiter's middleware is called for a request from `ip`, with the
\* new Response of that request
RateLimiterMiddleware(ip) ==
    /\ ~panicked
    /\ rate_limiter # <<>>
    /\ Len(served) < MaxServed
    /\ LET out == RateLimiter_middleware(rate_limiter[1], ip, Response_default, now,
                                         overflow_checks)
       IN /\ panicked' = out.panic
          /\ rate_limiter' = << out.limiter >>
          /\ response' = out.response
          /\ result' = out.result
          /\ served' = Append(served, [ip |-> ip, at |-> now, result |-> out.result,
                                       status_code |-> out.response.status_code])
    /\ UNCHANGED <<inputs, now, overflow_checks, resp, last_op>>
    /\ UNCHANGED servervars

NextLimiter ==
    \/ \E token_number \in inputs.token_numbers, token_refill_ms \in inputs.refills :
          RateLimiterNew(token_number, token_refill_ms)
    \/ Tick
    \/ \E ip \in inputs.ips : RateLimiterMiddleware(ip)

InitLimiter ==
    /\ inputs = LimiterInputs
    /\ InitServer
    /\ InitObjects
    /\ overflow_checks \in BOOLEAN

SpecLimiter == InitLimiter /\ [][NextLimiter]_vars

\* ----------------------------------------------------------- response body
limitervars == <<rate_limiter, now, overflow_checks, served>>

\* resp.body(bytes, content_type)
Body(bytes, content_type) ==
    /\ resp' = Response_body(resp, bytes, content_type)
    /\ last_op' = << [op |-> "body", body |-> bytes, ok |-> TRUE] >>
    /\ UNCHANGED <<inputs, panicked, response, result>>
    /\ UNCHANGED limitervars
    /\ UNCHANGED servervars

\* resp.json_body(data)
JsonBody(data) ==
    /\ resp' = json_body(resp, data)
    /\ last_op' = << [op |-> "json_body", body |-> as_bytes(serde_json_to_string(data)),
                      ok |-> TRUE] >>
    /\ UNCHANGED <<inputs, panicked, response, result>>
    /\ UNCHANGED limitervars
    /\ UNCHANGED servervars

\* resp.update_body(bytes)
UpdateBody(bytes) ==
    /\ LET out == update_body(resp, bytes)
       IN /\ resp' = out.response
          /\ last_op' = << [op |-> "update_body", body |-> bytes, ok |-> out.ok] >>
    /\ UNCHANGED <<inputs, panicked, response, result>>
    /\ UNCHANGED limitervars
    /\ UNCHANGED servervars

\* resp.set_body(bytes)
SetBody(bytes) ==
    /\ LET out == set_body(resp, bytes)
       IN /\ resp' = out.response
          /\ last_op' = << [op |-> "set_body", body |-> bytes, ok |-> out.ok] >>
    /\ UNCHANGED <<inputs, panicked, response, result>>
    /\ UNCHANGED limitervars
    /\ UNCHANGED servervars

NextResponse ==
    \/ \E bytes \in inputs.bodies, content_type \in inputs.content_types :
          Body(bytes, content_type)
    \/ \E data \in inputs.json : JsonBody(data)
    \/ \E bytes \in inputs.bodies : UpdateBody(bytes)
    \/ \E bytes \in inputs.bodies : SetBody(bytes)

InitResponse ==
    /\ inputs = ResponseInputs
    /\ InitServer
    /\ InitObjects
    /\ overflow_checks = TRUE

SpecResponse == InitResponse /\ [][NextResponse]_vars

\* mock_request runs on one thread and nothing preempts it for good: a request
\* in flight that can take a step takes it
FairSpec == SpecMiddleware /\ WF_vars(Next)

\* =================================================================== claims
\* helpers of the claims
Last(seq) == seq[Len(seq)]
IsPrefix(a, b) == Len(a) <= Len(b) /\ a = SubSeq(b, 1, Len(a))
TierCalls(tier, h) == SelectSeq(calls, LAMBDA c : c.tier = tier /\ c.handler = h)
Ids(cs) == [i \in 1..Len(cs) |-> cs[i].id]

\* the invocations cs follow `list` in order, each element at most once, and
\* each but the last of them returned Next
InOrder(cs, list) ==
    /\ IsPrefix(Ids(cs), list)
    /\ \A i \in 1..(Len(cs) - 1) : cs[i].result = "Next"

RouterHandlers == {h \in 1..Len(route_handlers) : route_handlers[h].kind = "router"}

\* what the router at top-level position h resolves the request in flight to
MatchedAt(h) ==
    route_handler(route_handlers[h].router, request.path_array, request.method)

\* the response that the recorded invocations produce, applied in order
RECURSIVE Replay(_, _)
Replay(cs, res) ==
    IF cs = <<>> THEN res
    ELSE LET c == Head(cs) IN
         Replay(Tail(cs),
                CASE c.tier = "controller" -> controller(c.id, <<>>, res)
                  [] c.tier = "not_found" -> not_found(res).response
                  [] OTHER -> middleware(c.id, c.result, res))

\* ----------------------------------------------------------------------- C1
\* C1: within Router::handle the middleware of each chain (the router's list,
\* then the matched endpoint's list) run in registration order: the invocations
\* of a chain are a prefix of its list (each middleware at most once), and a
\* middleware is invoked only after the one before it returned Next.
C1_RegistrationOrder ==
    \A h \in RouterHandlers :
        /\ InOrder(TierCalls("router", h), route_handlers[h].router.middlewares)
        /\ InOrder(TierCalls("endpoint", h),
                   IF MatchedAt(h).found THEN MatchedAt(h).endpoint.middlewares ELSE <<>>)

\* ----------------------------------------------------------------------- C2
\* C2: every dispatch terminates: a request that mock_request has started
\* reaches the end of mock_request, whatever the middleware return.
C2_Terminates == (pc = "loop") ~> (pc = "done")

\* ----------------------------------------------------------------------- C3
\* C3: once lookup has matched an endpoint, unless a middleware returns End the
\* endpoint's controller is reached (and invoked), for an endpoint with any
\* number of middleware.
C3_ControllerInvoked ==
    (pc = "endpoint_middlewares") ~> (pc = "controller" \/ result = "End")

\* ----------------------------------------------------------------------- C4
\* C4: short-circuit: when a middleware of any chain returned End, it is the
\* last invocation of the request (no later middleware, no controller, no
\* pending top-level handler runs), mock_request is over, and the response is
\* exactly what the invocations up to and including it made of the default
\* response.
C4_ShortCircuit ==
    \A i \in 1..Len(calls) :
        calls[i].result = "End" =>
            /\ i = Len(calls)
            /\ pc = "done"
            /\ result = "End"
            /\ response = Replay(calls, Response_default)

\* an endpoint middleware ended a request while a top-level handler was pending
C4_Witness ==
    /\ pc = "done"
    /\ result = "End"
    /\ calls # <<>>
    /\ Last(calls).tier = "endpoint"
    /\ Last(calls).result = "End"
    /\ hidx < Len(route_handlers)

\* ------------------------------------------------------------------ C5..C9
AllMethods == {"GET", "POST", "PUT", "PATCH", "DELETE"}

\* every Router of the state with the registrations that built it
RouterRegs ==
    { [router |-> router, registered |-> registered] }
    \cup { [router |-> route_handlers[h].router,
            registered |-> route_handlers[h].registered] : h \in RouterHandlers }

\* the path types of a registration path, and the request segments that spell it
TypesOf(path) == get_path_types(Trim(path)).types
SegmentsOf(path) == [i \in 1..Len(TypesOf(path)) |-> TypesOf(path)[i].name]
LiteralOnly(path) ==
    /\ get_path_types(Trim(path)).ok
    /\ \A i \in 1..Len(TypesOf(path)) : TypesOf(path)[i].kind = "Subdirectory"
SamePath(p, q) == TypesOf(p) = TypesOf(q)

PairwiseDistinct(regs) ==
    \A i, j \in 1..Len(regs) :
        i # j => ~(regs[i].method = regs[j].method /\ SamePath(regs[i].path, regs[j].path))

\* C5: registration/lookup round trip: after use_endpoint registrations of
\* literal-only paths with pairwise distinct (method, path), the lookup of each
\* registered path with its method finds the endpoint holding the controller
\* registered for that pair.
C5_RoundTrip ==
    \A rr \in RouterRegs :
        ((\A i \in 1..Len(rr.registered) : LiteralOnly(rr.registered[i].path))
         /\ PairwiseDistinct(rr.registered))
        => \A i \in 1..Len(rr.registered) :
              LET reg == rr.registered[i]
                  res == route_handler(rr.router, SegmentsOf(reg.path), reg.method)
              IN res.found /\ res.endpoint.controller = reg.controller

\* two routes, one under the other, both registered and both found
C5_Witness ==
    /\ Len(registered) = 2
    /\ PairwiseDistinct(registered)
    /\ registered[1].path = <<"/", "a", "/", "b">>
    /\ registered[2].path = <<"/", "a">>
    /\ route_handler(router, << <<"a">>, <<"b">> >>, registered[1].method).found
    /\ route_handler(router, << <<"a">> >>, registered[2].method).found

ControllersAt(regs, path) ==
    { regs[i].controller : i \in {j \in 1..Len(regs) : regs[j].path = path} }

LiteralRoute == <<"/", "u", "/", "a">>
ParameterRoute == <<"/", "u", "/", ":", "x">>

\* C6: literal precedence: with /u/a and /u/:x both registered (in either
\* order), GET /u/a resolves to the literal route with no binding, and
\* GET /u/42 to the parameter route with x bound to "42".
C6_LiteralPrecedence ==
    \A rr \in RouterRegs :
        (ControllersAt(rr.registered, LiteralRoute) # {}
         /\ ControllersAt(rr.registered, ParameterRoute) # {})
        => LET lit == route_handler(rr.router, << <<"u">>, <<"a">> >>, "GET")
               par == route_handler(rr.router, << <<"u">>, <<"4", "2">> >>, "GET")
           IN /\ lit.found
              /\ lit.endpoint.controller \in ControllersAt(rr.registered, LiteralRoute)
              /\ lit.params = EmptyMap
              /\ par.found
              /\ par.endpoint.controller \in ControllersAt(rr.registered, ParameterRoute)
              /\ par.params = (<<"x">> :> <<"4", "2">>)

\* the parameter route was registered before the literal route
C6_Witness ==
    /\ Len(registered) = 2
    /\ registered[1].path = ParameterRoute
    /\ registered[2].path = LiteralRoute
    /\ route_handler(router, << <<"u">>, <<"a">> >>, "GET").found

\* ----------------------------------------------------------------------- C7
\* the request's path segments as lookup sees them: query cut, empty ones skipped
RequestSegments(req) ==
    SelectSeq([i \in 1..Len(req.path_array) |-> strip_query(req.path_array[i])],
              LAMBDA seg : seg # <<>>)

ParameterNames(types) ==
    { types[i].name : i \in {j \in 1..Len(types) : types[j].kind = "Parameter"} }

DistinctNames(types) ==
    \A i, j \in 1..Len(types) :
        (i # j /\ types[i].kind = "Parameter" /\ types[j].kind = "Parameter")
        => types[i].name # types[j].name

SomeNames == { <<"x">>, <<"y">>, <<"z">> }

\* the registrations whose controller the last controller invocation ran
InvokedRoutes ==
    LET cs == SelectSeq(calls, LAMBDA c : c.tier = "controller")
        regs == route_handlers[Last(cs).handler].registered
    IN { regs[i] : i \in {j \in 1..Len(regs) : regs[j].controller = Last(cs).id} }

\* C7: parameter extraction: the request handed to the controller of a route
\* with pairwise distinct parameter names binds each parameter of the route to
\* the request segment at its position, and binds no other name.
C7_ParameterExtraction ==
    (ctrl_request # <<>> /\ Len(calls) < MaxCalls) =>
        \A reg \in InvokedRoutes :
            LET types == TypesOf(reg.path)
                segs == RequestSegments(request)
            IN DistinctNames(types) =>
                  /\ Len(segs) = Len(types)
                  /\ \A k \in 1..Len(types) :
                        types[k].kind = "Parameter"
                        => get_param(ctrl_request[1], types[k].name) = <<segs[k]>>
                  /\ \A n \in SomeNames \ ParameterNames(types) :
                        get_param(ctrl_request[1], n) = <<>>

\* ----------------------------------------------------------------------- C8
HasQuery(seg) == \E i \in 1..Len(seg) : seg[i] = "?"

\* the request URI without its query string
CutQuery(uri) ==
    LET at == {i \in 1..Len(uri) : uri[i] = "?"} IN
    IF at = {} THEN uri
    ELSE SubSeq(uri, 1, (CHOOSE i \in at : \A j \in at : i <= j) - 1)

\* C8: query-string isolation: a request whose last path segment carries a
\* ?query resolves to the same endpoint with the same bindings as the request
\* without the query, and no bound value holds a '?'.
C8_QueryIsolation ==
    \A rr \in RouterRegs, uri \in inputs.uris, method \in inputs.methods :
        LET with == route_handler(rr.router, uri_parser(uri), method)
            without == route_handler(rr.router, uri_parser(CutQuery(uri)), method)
        IN /\ with = without
           /\ with.found => \A n \in DOMAIN with.params : ~HasQuery(with.params[n])

\* a request with a query reached a controller with a parameter bound
C8_Witness ==
    /\ pc = "done"
    /\ HasQuery(request.uri)
    /\ ctrl_request # <<>>
    /\ DOMAIN ctrl_request[1].params # {}

\* ----------------------------------------------------------------------- C9
\* C9: method specificity: at a registered path each method resolves to a
\* controller registered for that method at that path, a method with no
\* endpoint there resolves to nothing, and a request that resolves to nothing
\* leaves the router with status NotFound and the result Next.
C9_MethodSpecificity ==
    /\ \A rr \in RouterRegs :
          (\A i \in 1..Len(rr.registered) : LiteralOnly(rr.registered[i].path))
          => \A i \in 1..Len(rr.registered), method \in AllMethods :
                LET path == rr.registered[i].path
                    own == { rr.registered[j].controller :
                               j \in {k \in 1..Len(rr.registered) :
                                        /\ SamePath(rr.registered[k].path, path)
                                        /\ rr.registered[k].method = method} }
                    res == route_handler(rr.router, SegmentsOf(path), method)
                IN IF own = {} THEN ~res.found
                   ELSE res.found /\ res.endpoint.controller \in own
    /\ (calls # <<>> /\ Last(calls).tier = "not_found")
       => response.status_code = "NotFound" /\ result = "Next"

\* GET and POST live at one path: each resolves to its own controller and
\* DELETE resolves to nothing
C9_Witness ==
    /\ Len(registered) = 2
    /\ registered[1].path = registered[2].path
    /\ registered[1].method # registered[2].method
    /\ \A i \in 1..2 :
          LET res == route_handler(router, SegmentsOf(registered[i].path),
                                   registered[i].method)
          IN res.found /\ res.endpoint.controller = registered[i].controller
    /\ ~route_handler(router, SegmentsOf(registered[1].path), "DELETE").found

\* ---------------------------------------------------------------------- C10
\* C10: not-found is non-terminal: a router that resolves the request to
\* nothing invokes no endpoint middleware and no controller, sets the status
\* NotFound and returns Next, and mock_request goes on to the next top-level
\* handler.
C10_NotFoundNext ==
    \A i \in 1..Len(calls) :
        calls[i].tier = "not_found" =>
            LET h == calls[i].handler IN
            /\ calls[i].result = "Next"
            /\ TierCalls("endpoint", h) = <<>>
            /\ TierCalls("controller", h) = <<>>
            /\ (i = Len(calls) /\ Len(calls) < MaxCalls) =>
                  /\ response.status_code = "NotFound"
                  /\ result = "Next"
                  /\ hidx = h + 1
                  /\ h < Len(route_handlers) => pc # "done"
            /\ i < Len(calls) => calls[i + 1].handler = h + 1

\* the handler after an unmatched router was invoked
C10_Witness ==
    \E i \in 1..Len(calls) :
        /\ calls[i].tier = "not_found"
        /\ i < Len(calls)
        /\ calls[i + 1].tier = "handler"
        /\ calls[i + 1].handler = calls[i].handler + 1

\* ---------------------------------------------------------------------- C11
\* every node of a trie
RECURSIVE Nodes(_)
Nodes(r) ==
    {r}
    \cup UNION { Nodes(r.subdirs[k]) : k \in DOMAIN r.subdirs }
    \cup (IF r.param_dir # <<>> THEN Nodes(r.param_dir[1].router) ELSE {})

\* C11: duplicate route: a second endpoint with the method of an endpoint
\* already registered at the same path is refused at registration, so no node
\* of a trie ever holds two endpoints with the same method.
C11_DuplicateRoute ==
    \A rr \in RouterRegs :
        \A node \in Nodes(rr.router) :
            \A i, j \in 1..Len(node.endpoints) :
                i # j => node.endpoints[i].method # node.endpoints[j].method

\* ---------------------------------------------------------------------- C12
\* the first k - 1 segments of two routes lead to the same node of the trie
SameNode(ti, tj, k) ==
    /\ k <= Len(ti)
    /\ k <= Len(tj)
    /\ \A m \in 1..(k - 1) :
          /\ ti[m].kind = tj[m].kind
          /\ ti[m].kind = "Subdirectory" => ti[m].name = tj[m].name

\* C12: conflicting parameter names: a registration whose parameter segment at
\* a node names the parameter differently from the parameter child stored
\* there is fatal, so the routes registered on one router never disagree on the
\* name of the parameter at a node.
C12_ParameterNameConflict ==
    \A rr \in RouterRegs :
        \A i, j \in 1..Len(rr.registered) :
            LET ti == TypesOf(rr.registered[i].path)
                tj == TypesOf(rr.registered[j].path)
            IN \A k \in 1..Len(ti) :
                  (SameNode(ti, tj, k) /\ ti[k].kind = "Parameter"
                   /\ tj[k].kind = "Parameter")
                  => ti[k].name = tj[k].name

\* ---------------------------------------------------------------------- C13
\* the path has a non-parameter segment with a character outside [A-Za-z0-9_.-]
HasInvalidSegment(path) ==
    LET parts == SelectSeq(Split(Trim(path), "/"), LAMBDA seg : seg # <<>>) IN
    \E i \in 1..Len(parts) :
        /\ Head(parts[i]) # ":"
        /\ \E k \in 1..Len(parts[i]) : parts[i][k] \notin ValidChars

\* C13: invalid segment: use_endpoint and use_router with a path that has an
\* invalid literal segment panic, and the router they were called on is left
\* as it was (no node, no endpoint added).
C13_InvalidSegment ==
    [][ /\ \A path \in inputs.paths, method \in inputs.methods,
              mws \in inputs.middlewares :
              (UseEndpoint(path, method, mws) /\ HasInvalidSegment(path))
              => (panicked' /\ router' = router)
        /\ \A prefix \in inputs.prefixes, parent \in inputs.parents :
              (UseRouter(prefix, parent) /\ HasInvalidSegment(prefix))
              => (panicked' /\ router' = parent.router) ]_vars

\* use_endpoint with an invalid segment panicked on a router that already had
\* a route, and the route is still there alone
C13_Witness ==
    /\ panicked
    /\ attempt # <<>>
    /\ attempt[1].op = "use_endpoint"
    /\ HasInvalidSegment(attempt[1].path)
    /\ Len(registered) = 1
    /\ CountEndpoints(router) = 1

\* ---------------------------------------------------------------------- C14
\* the non-empty '/'-separated segments of a path
NonEmptySegments(path) == SelectSeq(Split(path, "/"), LAMBDA seg : seg # <<>>)

\* C14: empty-segment normalisation at registration: two paths with the same
\* non-empty segments register identically: on every router, use_endpoint with
\* either gives the same outcome and the same trie.
C14_Normalisation ==
    \A rr \in RouterRegs :
        \A p, q \in inputs.paths :
            NonEmptySegments(p) = NonEmptySegments(q)
            => LET endpoint == Endpoint_new_with_middleware("GET", 7, <<>>)
               IN use_endpoint(rr.router, p, endpoint) = use_endpoint(rr.router, q, endpoint)

\* ---------------------------------------------------------------------- C15
IsRootPath(path) == Trim(path) = <<"/">> \/ Trim(path) = <<>>

\* the registrations of regs at the root path, in order
RootRegs(regs) == SelectSeq(regs, LAMBDA reg : IsRootPath(reg.path))

\* C15: root registration: the endpoints registered with the path "/" or ""
\* are the root node's endpoints, in the order of registration, no child is
\* made for them, and a request for the root path with the method of any of
\* them resolves to it.
C15_RootRegistration ==
    \A rr \in RouterRegs :
        LET roots == RootRegs(rr.registered) IN
        /\ Len(rr.router.endpoints) = Len(roots)
        /\ \A i \in 1..Len(roots) :
              /\ rr.router.endpoints[i].controller = roots[i].controller
              /\ rr.router.endpoints[i].method = roots[i].method
        /\ (Len(roots) = Len(rr.registered))
              => (rr.router.subdirs = EmptyMap /\ rr.router.param_dir = <<>>)
        /\ \A i \in 1..Len(roots) :
              LET res == route_handler(rr.router, uri_parser(<<"/">>), roots[i].method)
              IN res.found /\ res.endpoint.controller = roots[i].controller

\* ---------------------------------------------------------------------- C16
\* request segments that spell a prefix, with the value "7" for each parameter
PrefixRequest(prefix) ==
    LET types == TypesOf(prefix) IN
    [i \in 1..Len(types) |->
        IF types[i].kind = "Parameter" THEN <<"7">> ELSE types[i].name]

\* the bindings that those segments give the parameters of the prefix
PrefixBindings(prefix) ==
    LET types == TypesOf(prefix) IN
    [n \in ParameterNames(types) |-> <<"7">>]

\* the bindings of m, then those of n on top of them
Merge(m, n) ==
    [k \in (DOMAIN m) \cup (DOMAIN n) |-> IF k \in DOMAIN n THEN n[k] ELSE m[k]]

\* C16: mounting: after parent.use_router(prefix, sub) returned, every
\* (method, path) that resolved in sub resolves in the parent at the prefix
\* followed by the path, to the same endpoint, with the parameters of the prefix
\* bound as well.
C16_Mounting ==
    [][ \A prefix \in inputs.prefixes, parent \in inputs.parents :
          (UseRouter(prefix, parent) /\ ~panicked')
          => \A path \in inputs.paths, method \in inputs.methods :
                LET before == route_handler(router, uri_parser(path), method) IN
                before.found =>
                    LET after == route_handler(router',
                                               PrefixRequest(prefix) \o uri_parser(path),
                                               method)
                    IN /\ after.found
                       /\ after.endpoint = before.endpoint
                       /\ after.params = Merge(PrefixBindings(prefix), before.params)
      ]_vars

\* ---------------------------------------------------------------------- C17
\* C17: clone-and-bind: while a request is dispatched, the Request that
\* mock_request built (the one every middleware and every top-level handler is
\* given) keeps its original, empty params; the bindings are in the clone that
\* the controller received, and no clone exists unless a controller ran.
C17_CloneAndBind ==
    /\ pc # "idle" => request = Request_build(request.method, request.uri)
    /\ ctrl_request # <<>> =>
          /\ [ctrl_request[1] EXCEPT !.params = EmptyMap] = request
          /\ \/ Len(calls) = MaxCalls
             \/ \E i \in 1..Len(calls) : calls[i].tier = "controller"
    /\ (pc = "done" /\ matched.found /\ result = "Next")
          => ctrl_request = << add_param(request, matched.params) >>

\* a controller got a clone with a binding, and the top-level handler after
\* the router was then invoked with the request, which has no binding
C17_Witness ==
    /\ ctrl_request # <<>>
    /\ DOMAIN ctrl_request[1].params # {}
    /\ request.params = EmptyMap
    /\ \E i \in 1..(Len(calls) - 1) :
          /\ calls[i].tier = "controller"
          /\ calls[i + 1].tier = "handler"
          /\ calls[i + 1].handler = calls[i].handler + 1

\* ---------------------------------------------------------------------- C18
\* C18: lookup and dispatch leave the route table unchanged: no step of
\* mock_request (so no step of Router::handle) changes a trie of the server:
\* its nodes, their keys and parameter names, and every node's endpoints with
\* their methods, controllers, order and middleware lists stay as registered.
C18_TrieUnchanged ==
    [][ (pc # "idle" \/ pc' # "idle") => route_handlers' = route_handlers ]_vars

\* an endpoint middleware ran through the reference into the trie and returned
\* Next, and the endpoint in the trie still has its middleware
C18_Witness ==
    /\ pc = "endpoint_middlewares"
    /\ TierCalls("endpoint", hidx) # <<>>
    /\ MatchedAt(hidx).found
    /\ MatchedAt(hidx).endpoint.middlewares # <<>>
    /\ MatchedAt(hidx).endpoint = matched.endpoint

\* ---------------------------------------------------------------------- C19
\* what every router of the server resolves every request of the family to
AllLookups(handlers) ==
    [h \in {i \in 1..Len(handlers) : handlers[i].kind = "router"} |->
        [uri \in inputs.uris |->
            [method \in inputs.methods |->
                route_handler(handlers[h].router, uri_parser(uri), method)]]]

C20_InOrder ==
    /\ \A i, j \in 1..Len(calls) : i < j => calls[i].handler <= calls[j].handler
    /\ \A i, j \in 1..Len(calls) :
          (i < j /\ calls[i].tier = "handler") => calls[i].handler < calls[j].handler
    /\ \A i \in 1..Len(calls) : calls[i].handler <= hidx
    /\ \A i \in 1..Len(calls) : calls[i].result = "End" => i = Len(calls)
    /\ (pc = "done" /\ Len(calls) < MaxCalls) =>
          /\ response = Replay(calls, Response_default)
          /\ result # "End" =>
                \A h \in 1..Len(route_handlers) : \E i \in 1..Len(calls) : calls[i].handler = h

\* C20: global handler sequence: for each request the server invokes its
\* top-level handlers in the order of use_handler, each at most once, stops
\* after the first that returns End, and otherwise invokes all of them (the
\* request gets past every handler that does not return End); the response
\* returned is the accumulator after the last handler invoked.
C20_HandlerSequence ==
    /\ []C20_InOrder
    /\ \A h \in 1..MaxHandlers :
          (pc = "loop" /\ hidx = h /\ h <= Len(route_handlers))
          ~> (result = "End" \/ hidx > h)

\* ---------------------------------------------------------------------- C21
\* the tiers in the order the claim gives them
TierRank(tier) ==
    CASE tier = "handler" -> 0
      [] tier = "router" -> 1
      [] tier = "endpoint" -> 2
      [] tier = "controller" -> 3
      [] OTHER -> 1

\* C21 as stated: within one request no element of an earlier tier (global
\* handlers, router middleware, endpoint middleware, controller) is invoked
\* after an element of a later tier.
C21_TierOrder ==
    \A i, j \in 1..Len(calls) :
        i < j => TierRank(calls[i].tier) <= TierRank(calls[j].tier)

\* C21 as amended: the top-level handlers are invoked in the order of
\* use_handler, so a global handler runs before the tiers of the routers added
\* after it and after those of the routers added before it; within one
\* Router::handle the router middleware come first, then the endpoint
\* middleware, then the controller.
C21_TierOrderAmended ==
    \A i, j \in 1..Len(calls) :
        i < j =>
            /\ calls[i].handler <= calls[j].handler
            /\ calls[i].handler = calls[j].handler
                  => TierRank(calls[i].tier) <= TierRank(calls[j].tier)

\* a router's controller ran, and then the global handler added after the
\* router: a later tier, then an earlier one, in the order of use_handler
C21_Witness ==
    /\ pc = "done"
    /\ Len(calls) = 2
    /\ calls[1].tier = "controller"
    /\ calls[2].tier = "handler"
    /\ calls[1].handler = 1
    /\ calls[2].handler = 2

\* ---------------------------------------------------------------------- C22
\* C22: an unmatched router touches only the status: the step of Router::handle
\* that finds no match leaves the response as it was, headers and body
\* included, but for the status, which is NotFound after it.
C22_OnlyStatus ==
    [][ (pc = "lookup" /\ ~MatchedAt(hidx).found)
        => response' = [response EXCEPT !.status_code = "NotFound"] ]_vars

\* a first router's controller set the body and the status, a second router
\* found no match: the body is still there
C22_Witness ==
    /\ Len(calls) = 2
    /\ calls[1].tier = "controller"
    /\ calls[2].tier = "not_found"
    /\ response.body = calls[1].id
    /\ response.status_code = "NotFound"

\* ---------------------------------------------------------------------- C23
\* request paths of every shape: no segment, empty segments, segments with
\* '?', with characters no route can have, with a ':', longer than any route
OddRequests ==
    { <<>>, << <<>> >>, << <<>>, <<>> >>, << <<"?", "?">>, <<"a">> >>,
      << <<"a">>, <<"$", "?", "b">> >>, << <<"a">>, <<>>, <<"b", "?">> >>,
      << <<"a">>, <<"b">>, <<":", "x">>, <<" ">> >> }

\* C23: dispatch never fails abruptly: on every router, the lookup of every
\* request path and method returns a match or None without panicking; no
\* dispatch panics, and what Router::handle returns is Next or End.
C23_NoPanic ==
    /\ \A rr \in RouterRegs, segs \in OddRequests, method \in {"GET", "DELETE"} :
          LET res == route_handler(rr.router, segs, method)
          IN /\ "panic" \notin DOMAIN res
             /\ res.found \in BOOLEAN
    /\ \A uri \in inputs.uris, rr \in RouterRegs :
          "panic" \notin DOMAIN route_handler(rr.router, uri_parser(uri), "GET")
    /\ pc # "idle" => ~panicked
    /\ pc # "panic"
    /\ result \in {"None", "Next", "End"}
    /\ \A i \in 1..Len(calls) : calls[i].result \in HandlerResult

\* a request with an empty segment and a query of odd characters went through
\* a router that has a route for it
C23_Witness ==
    /\ pc = "done"
    /\ request.uri = <<"/", "a", "/", "/", "b", "?", "$">>
    /\ calls # <<>>
    /\ Last(calls).tier = "controller"
    /\ result = "Next"

\* ---------------------------------------------------------------------- C24
\* the values of a binding map
Values(params) == { params[n] : n \in DOMAIN params }

\* the segments of the request in flight, as a set
OwnSegments == { RequestSegments(request)[i] : i \in 1..Len(RequestSegments(request)) }

PathArrayTable ==
    { [uri |-> <<"/">>, array |-> <<>>],
      [uri |-> <<"/", "h", "e", "l", "l", "o">>,
       array |-> << <<"h", "e", "l", "l", "o">> >>],
      [uri |-> <<"/", "h", "e", "l", "l", "o", "/", "w", "o", "r", "l", "d">>,
       array |-> << <<"h", "e", "l", "l", "o">>,
                    <<"w", "o", "r", "l", "d">> >>],
      [uri |-> <<"/", "h", "e", "l", "l", "o", "/", "w", "o", "r", "l", "d", "?", "c", "i", "t", "y", "=", "i", "s", "t", "a", "n", "b", "u", "l">>,
       array |-> << <<"h", "e", "l", "l", "o">>,
                    <<"w", "o", "r", "l", "d", "?", "c", "i", "t", "y", "=", "i", "s", "t", "a", "n", "b", "u", "l">> >>] }

\* C26: get_path_array follows its documented table: "/" gives the empty
\* vector, "/hello" gives ["hello"], "/hello/world" gives ["hello", "world"],
\* and a query string stays on the last element.
C26_PathArrayTable ==
    /\ \A row \in PathArrayTable :
          get_path_array(Request_build("GET", row.uri)) = row.array
    /\ (pc # "idle" /\ request.uri = <<"/">>) => get_path_array(request) = <<>>

\* ---------------------------------------------------------------------- C29
DeepLiteralRoute == <<"/", "u", "/", "a", "/", "b">>
DeepParameterRoute == <<"/", "u", "/", ":", "x", "/", "c">>
DeepRequest == <<"/", "u", "/", "a", "/", "c">>

\* the registrations of regs that put the controller `id` into the trie
RoutesOf(regs, id) ==
    { regs[i] : i \in {j \in 1..Len(regs) : regs[j].controller = id} }

\* a registration of regs has the literal child `seg` at the node where the
\* route `types` has its k-th segment
LiteralChildAt(regs, types, k, seg) ==
    \E i \in 1..Len(regs) :
        LET other == TypesOf(regs[i].path) IN
        /\ SameNode(other, types, k)
        /\ other[k].kind = "Subdirectory"
        /\ other[k].name = seg

\* C29: no backtracking in lookup: a lookup never resolves to a route through
\* a parameter segment at a node that has a literal child equal to the request
\* segment there; with only GET /u/a/b and GET /u/:x/c registered, GET /u/a/c
\* finds no match.
C29_NoBacktracking ==
    \A rr \in RouterRegs :
        /\ \A uri \in inputs.uris :
              LET req == Request_build("GET", uri)
                  segs == RequestSegments(req)
                  res == route_handler(rr.router, req.path_array, "GET")
              IN res.found =>
                    \A reg \in RoutesOf(rr.registered, res.endpoint.controller) :
                        LET types == TypesOf(reg.path) IN
                        \A k \in 1..Len(types) :
                            types[k].kind = "Parameter"
                            => ~LiteralChildAt(rr.registered, types, k, segs[k])
        /\ { rr.registered[i].path : i \in 1..Len(rr.registered) }
              = {DeepLiteralRoute, DeepParameterRoute}
           => ~route_handler(rr.router, Request_build("GET", DeepRequest).path_array,
                             "GET").found

\* GET /u/a/c was dispatched to a router holding both routes and got NotFound
C29_Witness ==
    /\ pc = "done"
    /\ request.uri = DeepRequest
    /\ Len(route_handlers) = 1
    /\ route_handlers[1].kind = "router"
    /\ Len(route_handlers[1].registered) = 2
    /\ route_handlers[1].registered[1].path = DeepParameterRoute
    /\ route_handlers[1].registered[2].path = DeepLiteralRoute
    /\ response.status_code = "NotFound"
    /\ \A i \in 1..Len(calls) : calls[i].tier # "controller"

\* ---------------------------------------------------------------------- C30
\* C30: a controller's status survives later routers: when an earlier router
\* ran its controller and every handler after it was a router with no route
\* for the request, the final status is the one the controller set.
C30_StatusSurvives ==
    (pc = "done" /\ Len(calls) < MaxCalls) =>
        \A i \in 1..Len(calls) :
            (/\ calls[i].tier = "controller"
             /\ \A j \in (i + 1)..Len(calls) : calls[j].tier = "not_found")
            => response.status_code = controller(calls[i].id, request, response).status_code

\* ---------------------------------------------------------------------- C25
\* the requests of `log` from `ip`, walked in order with the window of the
\* claim: a window starts at the first request and at each request that
\* arrives at least `refill` after the start of the window before it; `w` is
\* that window (<<>> before the first request) with the number of requests
\* that returned Next in it.  TRUE when no window has more than `limit` of them.
RECURSIVE WindowsWithin(_, _, _, _, _)
WindowsWithin(log, ip, refill, limit, w) ==
    IF log = <<>> THEN TRUE
    ELSE LET e == Head(log) IN
         IF e.ip # ip THEN WindowsWithin(Tail(log), ip, refill, limit, w)
         ELSE LET cur == IF w = <<>> \/ e.at - w[1].start >= refill
                         THEN [start |-> e.at, passed |-> 0]
                         ELSE w[1]
                  nxt == [cur EXCEPT !.passed = @ + (IF e.result = "Next" THEN 1 ELSE 0)]
              IN /\ nxt.passed <= limit
                 /\ WindowsWithin(Tail(log), ip, refill, limit, <<nxt>>)

\* C25: RateLimiter bound: for each client IP, at most token_number requests
\* of a window return Next, and every other request gets the status
\* TooManyRequests and HandlerResult::End.
C25_RateLimiterBound ==
    rate_limiter # <<>> =>
        /\ \A ip \in inputs.ips :
              WindowsWithin(served, ip, rate_limiter[1].token_refill_duration,
                            rate_limiter[1].token_number, <<>>)
        /\ \A i \in 1..Len(served) :
              \/ served[i].result = "Next"
              \/ served[i].result = "End" /\ served[i].status_code = "TooManyRequests"

\* ---------------------------------------------------------------------- C27
\* a decimal number read back: <<n>>, or <<>> when chars is no decimal number
DigitValue(ch) == CHOOSE d \in 0..9 : Digits[d + 1] = ch
IsDigit(ch) == \E d \in 0..9 : Digits[d + 1] = ch

RECURSIVE ParseDigits(_, _)
ParseDigits(chars, acc) ==
    IF chars = <<>> THEN acc
    ELSE ParseDigits(Tail(chars), 10 * acc + DigitValue(Head(chars)))

ParseUsize(chars) ==
    IF chars # <<>> /\ \A i \in 1..Len(chars) : IsDigit(chars[i])
    THEN << ParseDigits(chars, 0) >>
    ELSE <<>>

\* the value of the Content-Length header as a number, <<>> without one
ContentLength(r) ==
    IF "Content-Length" \in DOMAIN r.headers THEN ParseUsize(r.headers["Content-Length"])
    ELSE <<>>

\* C27: Content-Length stays in step with the body: after a body operation
\* (body, json_body, update_body, set_body) that succeeded, the Content-Length
\* header equals the length in bytes of the current body.
C27_ContentLength ==
    (last_op # <<>> /\ last_op[1].ok) => ContentLength(resp) = << Len(resp.body) >>

\* ---------------------------------------------------------------------- C28
\* C28: replacing a missing body is an error without effect: update_body and
\* set_body on a Response whose body is empty return Err and leave the
\* Response as it was; on a Response with a body they return Ok and the body
\* is the given bytes.
C28_ReplaceMissingBody ==
    [][(last_op' # <<>> /\ last_op'[1].op \in {"update_body", "set_body"})
       => IF resp.body = <<>>
          THEN ~last_op'[1].ok /\ resp' = resp
          ELSE last_op'[1].ok /\ resp'.body = last_op'[1].body]_vars

\* update_body was refused on a Response that body() had given an empty body
\* and its headers
C28_Witness ==
    /\ last_op # <<>>
    /\ last_op[1].op = "update_body"
    /\ last_op[1].body # <<>>
    /\ ~last_op[1].ok
    /\ resp.body = <<>>
    /\ ContentLength(resp) = <<0>>

\* ---------------------------------------------------------------------- C31
\* C31: the router-scoped middleware list is always empty: whatever new,
\* use_router, use_endpoint and handle did, the middlewares vector of every
\* router is empty, and the router tier of Router::handle invoked no middleware.
C31_RouterMiddlewaresEmpty ==
    /\ \A rr \in RouterRegs : rr.router.middlewares = <<>>
    /\ \A i \in 1..Len(calls) : calls[i].tier # "router"

\* a router that a sub-router was mounted into handled a request down to a
\* controller
C31_Witness ==
    /\ mounts = 1
    /\ pc = "done"
    /\ Len(route_handlers) = 1
    /\ route_handlers[1].kind = "router"
    /\ route_handlers[1].router.middlewares = <<>>
    /\ \E i \in 1..Len(calls) : calls[i].tier = "controller"

\* ---------------------------------------------------------------------- C32
\* the node that `types` addresses exists in the trie of r, whatever the name
\* of a parameter child on the way
RECURSIVE Addressed(_, _)
Addressed(r, types) ==
    IF types = <<>> THEN TRUE
    ELSE IF Head(types).kind = "Subdirectory"
    THEN /\ Head(types).name \in DOMAIN r.subdirs
         /\ Addressed(r.subdirs[Head(types).name], Tail(types))
    ELSE /\ r.param_dir # <<>>
         /\ Addressed(r.param_dir[1].router, Tail(types))

\* the prefixes of the run, the root paths, an intermediate node, and a
\* parameter under another name
MountPrefixes ==
    inputs.prefixes \cup { <<"/">>, <<>>, <<" ", "/", " ">>, <<"/", "u">>, <<"/", ":", "y">> }

\* a sub-router with one route
SubRouter == Built(<< [path |-> <<"/">>, method |-> "GET", controller |-> 7] >>).router

\* C32: use_router refuses to overwrite: on every router being built,
\* use_router with the path "/" or an empty path, or with a path whose node
\* exists already, panics and leaves the trie as it was; a use_router call that
\* panicked left the parent as it was built.
C32_RefuseOverwrite ==
    /\ pc = "idle" =>
          \A prefix \in MountPrefixes :
              (get_path_types(Trim(prefix)).ok
               /\ (IsRootPath(prefix) \/ Addressed(router, TypesOf(prefix))))
              => use_router(router, prefix, SubRouter) = [ok |-> FALSE, router |-> router]
    /\ (panicked /\ attempt # <<>> /\ attempt[1].op = "use_router")
          => \E parent \in inputs.parents : router = parent.router

\* a router was mounted at /u/c under a parent that had /u as an intermediate
\* node only: /u/c, /u and /:x are all taken now
C32_Witness ==
    /\ ~panicked
    /\ mounts = 1
    /\ attempt = << [op |-> "use_router", path |-> <<"/", "u", "/", "c">>] >>
    /\ registered # <<>>
    /\ router.subdirs[<<"u">>].subdirs[<<"c">>].endpoints # <<>>
    /\ Addressed(router, TypesOf(<<"/", "u">>))
    /\ Addressed(router, TypesOf(<<"/", ":", "y">>))

\* ---------------------------------------------------------------------- C33
\* the positions of the parameter segments of a route
ParameterPositions(types) == {k \in 1..Len(types) : types[k].kind = "Parameter"}

\* the name that the first registration of regs with a parameter segment at
\* the node of position k of `types` gave that segment
FirstName(regs, types, k) ==
    LET through == {i \in 1..Len(regs) :
                       /\ SameNode(TypesOf(regs[i].path), types, k)
                       /\ TypesOf(regs[i].path)[k].kind = "Parameter"}
        i0 == CHOOSE i \in through : \A j \in through : i <= j
    IN TypesOf(regs[i0].path)[k].name

\* two registrations name the parameter at one node differently
NameConflict(regs) ==
    \E i, j \in 1..Len(regs) :
        LET ti == TypesOf(regs[i].path)
            tj == TypesOf(regs[j].path)
        IN \E k \in 1..Len(ti) :
              /\ SameNode(ti, tj, k)
              /\ ti[k].kind = "Parameter" /\ tj[k].kind = "Parameter"
              /\ ti[k].name # tj[k].name

\* C33: first parameter name wins: routes that name the parameter at one trie
\* position differently are both registered, and the lookup of each route of a
\* router binds, for every parameter position of the route, the name that the
\* first registration gave that position and no other name; the controller
\* that ran was given those names only.
C33_FirstNameWins ==
    /\ \A rr \in RouterRegs :
          \A i \in 1..Len(rr.registered) :
              LET reg == rr.registered[i]
                  types == TypesOf(reg.path)
                  res == route_handler(rr.router, PrefixRequest(reg.path), reg.method)
              IN /\ res.found
                 /\ DOMAIN res.params
                       = { FirstName(rr.registered, types, k) : k \in ParameterPositions(types) }
    /\ (ctrl_request # <<>> /\ Len(calls) < MaxCalls) =>
          \A reg \in InvokedRoutes :
              LET h == Last(SelectSeq(calls, LAMBDA c : c.tier = "controller")).handler
                  types == TypesOf(reg.path)
              IN DOMAIN ctrl_request[1].params
                    = { FirstName(route_handlers[h].registered, types, k) :
                           k \in ParameterPositions(types) }

\* /:y was registered before /:x/:y, and the controller of /:x/:y ran for
\* GET /7/99 with no binding for x
C33_Witness ==
    /\ pc = "done"
    /\ ~panicked
    /\ Len(route_handlers) = 1
    /\ route_handlers[1].kind = "router"
    /\ NameConflict(route_handlers[1].registered)
    /\ route_handlers[1].router.param_dir[1].name = <<"y">>
    /\ request.uri = <<"/", "7", "/", "9", "9">>
    /\ ctrl_request # <<>>
    /\ get_param(ctrl_request[1], <<"x">>) = <<>>
    /\ get_param(ctrl_request[1], <<"y">>) # <<>>

\* ---------------------------------------------------------------------- C34
\* registration j of regs repeats the (method, path) of the earlier i
Duplicates(regs, i, j) ==
    /\ i < j
    /\ regs[i].method = regs[j].method
    /\ SamePath(regs[i].path, regs[j].path)

\* the first registration of regs with the (method, path) of registration i
FirstOf(regs, i) ==
    CHOOSE f \in 1..Len(regs) :
        /\ regs[f].method = regs[i].method
        /\ SamePath(regs[f].path, regs[i].path)
        /\ \A g \in 1..(f - 1) :
              ~(regs[g].method = regs[i].method /\ SamePath(regs[g].path, regs[i].path))

\* C34: first duplicate wins: endpoints registered with the same method at the
\* same path are both stored on the node, in registration order; every lookup
\* of a registered (method, path) returns the first-registered endpoint, and no
\* controller of a later duplicate is invoked.  (The routers are looked at
\* between requests, when no dispatch is under way.)
C34_FirstDuplicateWins ==
    /\ \A rr \in (IF pc = "idle" THEN RouterRegs ELSE {}) :
          LET regs == rr.registered IN
          /\ \A i, j \in 1..Len(regs) :
                Duplicates(regs, i, j)
                => \E node \in Nodes(rr.router) :
                      \E a, b \in 1..Len(node.endpoints) :
                          /\ a < b
                          /\ node.endpoints[a].controller = regs[i].controller
                          /\ node.endpoints[b].controller = regs[j].controller
          /\ \A i \in 1..Len(regs) :
                LET res == route_handler(rr.router, SegmentsOf(regs[i].path), regs[i].method)
                IN res.found /\ res.endpoint.controller = regs[FirstOf(regs, i)].controller
    /\ \A c \in 1..Len(calls) :
          calls[c].tier = "controller"
          => LET regs == route_handlers[calls[c].handler].registered IN
             \A j \in 1..Len(regs) :
                 regs[j].controller = calls[c].id => FirstOf(regs, j) = j

\* GET /a was registered twice and a request for it ran the first controller
C34_Witness ==
    /\ pc = "done"
    /\ Len(route_handlers) = 1
    /\ route_handlers[1].kind = "router"
    /\ Len(route_handlers[1].registered) = 2
    /\ Duplicates(route_handlers[1].registered, 1, 2)
    /\ \E c \in 1..Len(calls) :
          calls[c].tier = "controller" /\ calls[c].id = route_handlers[1].registered[1].controller

\* ---------------------------------------------------------------------- C35
\* request URIs with empty segments, trailing slashes and query strings
SparseUris ==
    inputs.uris \cup
    { <<"/", "u", "/", "/", "4">>, <<"/", "u", "/", "a", "/">>,
      <<"/", "/", "7", "/", "/", "9", "/">>, <<"/", "u", "/", "?", "a", "/", "4">>,
      <<"/", "7", "?", "a", "/", "?", "/", "9", "?">>, <<"/", "?", "a">> }

\* the path array without the segments that are empty once the query is cut
WithoutEmpty(path_array) == SelectSeq(path_array, LAMBDA seg : CutQuery(seg) # <<>>)

\* the same, with the query cut from the segments that stay
Compact(path_array) ==
    LET kept == WithoutEmpty(path_array) IN [i \in 1..Len(kept) |-> CutQuery(kept[i])]

\* C35: lookup ignores empty request segments: a request path resolves like
\* the same path without the segments that are empty after query stripping,
\* and like that path with the queries cut; every bound parameter value is
\* non-empty and has no '?'.
C35_EmptySegments ==
    /\ \A rr \in (IF pc = "idle" THEN RouterRegs ELSE {}), uri \in SparseUris :
          LET path_array == uri_parser(uri)
              res == route_handler(rr.router, path_array, "GET")
          IN /\ res = route_handler(rr.router, WithoutEmpty(path_array), "GET")
             /\ res = route_handler(rr.router, Compact(path_array), "GET")
             /\ res.found => \A n \in DOMAIN res.params :
                                 res.params[n] # <<>> /\ ~HasQuery(res.params[n])
    /\ ctrl_request # <<>> =>
          \A n \in DOMAIN ctrl_request[1].params :
              ctrl_request[1].params[n] # <<>> /\ ~HasQuery(ctrl_request[1].params[n])

\* GET /u//4?a/ reached the controller of /u/:x with x bound to "4"
C35_Witness ==
    /\ pc = "done"
    /\ request.uri = <<"/", "u", "/", "/", "4", "?", "a", "/">>
    /\ ctrl_request # <<>>
    /\ get_param(ctrl_request[1], <<"x">>) = << <<"4">> >>

\* ---------------------------------------------------------------------- C36
RepeatRoute == <<"/", ":", "x", "/", "a", "/", ":", "x">>

\* the parameter names along a route of regs, as the trie stores them
StoredNames(regs, types) ==
    { FirstName(regs, types, k) : k \in ParameterPositions(types) }

\* the deepest position of the route at which the trie stores the name n
Deepest(regs, types, n) ==
    LET at == {k \in ParameterPositions(types) : FirstName(regs, types, k) = n}
    IN CHOOSE k \in at : \A j \in at : j <= k

\* C36: repeated parameter name: the bindings delivered to the controller of a
\* route have one entry for each distinct parameter name on the route, and the
\* value of a name is the request segment at the deepest position with that
\* name.
C36_RepeatedName ==
    (ctrl_request # <<>> /\ Len(calls) < MaxCalls) =>
        \A reg \in InvokedRoutes :
            LET h == Last(SelectSeq(calls, LAMBDA c : c.tier = "controller")).handler
                regs == route_handlers[h].registered
                types == TypesOf(reg.path)
                segs == RequestSegments(request)
                params == ctrl_request[1].params
            IN /\ DOMAIN params = StoredNames(regs, types)
               /\ Cardinality(DOMAIN params) = Cardinality(StoredNames(regs, types))
               /\ \A n \in DOMAIN params : params[n] = segs[Deepest(regs, types, n)]

\* the controller of /:x/a/:x ran for GET /7/a/9 with the one binding x = 9
C36_Witness ==
    /\ pc = "done"
    /\ request.uri = <<"/", "7", "/", "a", "/", "9">>
    /\ ctrl_request # <<>>
    /\ \E reg \in InvokedRoutes : reg.path = RepeatRoute
    /\ ctrl_request[1].params = (<<"x">> :> <<"9">>)

\* ---------------------------------------------------------------------- C37
\* the orders in which n registrations can be made
Orders(n) ==
    {f \in [1..n -> 1..n] : \A i, j \in 1..n : i # j => f[i] # f[j]}

\* the registrations regs, made in the order f
Permuted(regs, f) == [i \in 1..Len(regs) |-> regs[f[i]]]

\* request paths for the routes of the run: inputs.uris and some that match
\* nothing
OrderRequests ==
    { uri_parser(uri) : uri \in inputs.uris }
    \cup { <<>>, << <<"u">> >>, << <<"u">>, <<"a">>, <<"b">> >>, << <<"7">>, <<"a">> >> }

\* C37: registration order of endpoints does not matter: for registrations
\* with pairwise distinct (method, path) and consistent parameter names, the
\* router built by making them in any order gives the same lookup result as the
\* router of the state, for every method and request path.
C37_OrderIndependent ==
    \A rr \in (IF pc = "idle" THEN RouterRegs ELSE {}) :
        (PairwiseDistinct(rr.registered) /\ ~NameConflict(rr.registered))
        => \A f \in Orders(Len(rr.registered)) :
              LET other == Built(Permuted(rr.registered, f)).router IN
              \A method \in AllMethods, path_array \in OrderRequests :
                  route_handler(other, path_array, method)
                      = route_handler(rr.router, path_array, method)

\* GET and POST were registered at /u/:x: in the other order the node holds
\* the endpoints the other way round
C37_Witness ==
    /\ pc = "idle"
    /\ Len(registered) = 2
    /\ registered[1].path = <<"/", "u", "/", ":", "x">>
    /\ registered[2].path = <<"/", "u", "/", ":", "x">>
    /\ registered[1].method # registered[2].method
    /\ Built(Permuted(registered, <<2, 1>>)).router # router
    /\ route_handler(router, << <<"u">>, <<"7">> >>, "POST").found

\* ---------------------------------------------------------------------- C38
\* C38: RateLimiter token arithmetic stays in range: each IP's stored token
\* count is between 0 and token_number, no token computation underflows the
\* u16 (no panic of a build with overflow checks, no wrapped value of a build
\* without them), and a limiter created with 0 tokens never admits a request.
C38_TokensInRange ==
    rate_limiter # <<>> =>
        LET self == rate_limiter[1] IN
        /\ ~panicked
        /\ \A ip \in DOMAIN self.requests :
              /\ self.requests[ip].tokens >= 0
              /\ self.requests[ip].tokens <= self.token_number
        /\ self.token_number = 0 =>
              \A i \in 1..Len(served) : served[i].result # "Next"

\* ---------------------------------------------------------------------- C39
\* the requests of the log from `ip` that arrived in lo..hi and returned Next
Admitted(ip, lo, hi) ==
    {i \in 1..Len(served) :
        /\ served[i].ip = ip
        /\ served[i].at >= lo /\ served[i].at <= hi
        /\ served[i].result = "Next"}

\* C39: RateLimiter sliding bound: for each client IP, among the requests that
\* arrive within any time interval shorter than the token refill duration, at
\* most token_number return Next, wherever the interval lies.
C39_SlidingBound ==
    rate_limiter # <<>> =>
        \A ip \in inputs.ips, lo \in 0..MaxTime, hi \in 0..MaxTime :
            (lo <= hi /\ hi - lo < rate_limiter[1].token_refill_duration)
            => Cardinality(Admitted(ip, lo, hi)) <= rate_limiter[1].token_number

====
